---- MODULE Spec2Model ----
(***************************************************************************)
(* Model of the donation back-end's serverless handlers:                   *)
(*   - the Stripe webhook verifier and forwarder (api/stripe-webhook.js,   *)
(*     src/unnamed/part_001);                                              *)
(*   - the public recent-donations feed (src/api/public-recent-donations.js*)
(*     its session-based handler and its event-based handler);             *)
(*   - the prayer-request sanitiser of the checkout endpoint               *)
(*     (src/unnamed/part_006).                                             *)
(*                                                                         *)
(* JavaScript strings that the code inspects character by character        *)
(* (emails, names, CSV lists, flags, currency codes) are sequences of      *)
(* one-character strings.  null / undefined is the one-element sequence    *)
(* Null, which is no string of the alphabet.                               *)
(***************************************************************************)
EXTENDS Integers, Sequences, FiniteSets, TLC

VARIABLES
  \* the webhook: process.env, the handler's position, the request in hand,
  \* its response, the forwarding POSTs made for it, its log lines, and the
  \* number of deliveries so far
  env, pc, req, res, outbox, log, nreq,
  \* every forwarding POST made since the process started, with the number
  \* of the delivery it was made for and that delivery's request
  sent,
  \* the feed: process.env, the handler's position, the request in hand, the
  \* provider's answer to its list call, its response, for each returned
  \* item the index of the session it was built from, and the outcome of the
  \* list call ("none" before it, "ok", "error")
  fenv, fpc, freq, fdata, fres, fsrc, flist,
  \* the amount conversions: the last amount given to the webhook's and to
  \* the feed's formatter, with what each made of it
  conv,
  \* checkout creation: the handler's position, the request in hand, its
  \* response, the creation calls made to the provider since the client's
  \* first attempt, the sessions the provider created for them, the number
  \* of attempts, and the number of keys the server generated
  kpc, kreq, kres, kcalls, ksessions, ktries, kuuid

wvars == <<env, pc, req, res, outbox, log, nreq, sent>>
fvars == <<fenv, fpc, freq, fdata, fres, fsrc, flist>>
cvars == <<conv>>
kvars == <<kpc, kreq, kres, kcalls, ksessions, ktries, kuuid>>
vars == <<env, pc, req, res, outbox, log, nreq, sent, fenv, fpc, freq, fdata, fres, fsrc, flist, conv,
          kpc, kreq, kres, kcalls, ksessions, ktries, kuuid>>

(* ------------------------------ bounds -------------------------------- *)
\* Number of webhook deliveries in one behaviour.
MaxRequests == 2
\* Number of candidate sessions the provider returns to the feed.
MaxSessions == 3

(* --------------------------- JS string model --------------------------- *)
Null == <<"null">>

Range(s) == {s[i] : i \in 1..Len(s)}

Lowers == <<"a","b","c","d","e","f","g","h","i","j","k","l","m",
            "n","o","p","q","r","s","t","u","v","w","x","y","z">>
Uppers == <<"A","B","C","D","E","F","G","H","I","J","K","L","M",
            "N","O","P","Q","R","S","T","U","V","W","X","Y","Z">>

\* String.prototype.toLowerCase, one character.
LowerTable == [c \in Range(Uppers) |-> Lowers[CHOOSE i \in 1..Len(Uppers) : Uppers[i] = c]]
LowerCh(c) == IF c \in DOMAIN LowerTable THEN LowerTable[c] ELSE c

\* String.prototype.toUpperCase, one character.
UpperTable == [c \in Range(Lowers) |-> Uppers[CHOOSE i \in 1..Len(Lowers) : Lowers[i] = c]]
UpperCh(c) == IF c \in DOMAIN UpperTable THEN UpperTable[c] ELSE c

toLowerCase(s) == [i \in 1..Len(s) |-> LowerCh(s[i])]
toUpperCase(s) == [i \in 1..Len(s) |-> UpperCh(s[i])]

IsSpace(c) == c \in {" ", "\t", "\n"}

RECURSIVE TrimLeft(_)
TrimLeft(s) ==
  IF s # <<>> /\ IsSpace(Head(s)) THEN TrimLeft(Tail(s)) ELSE s

RECURSIVE TrimRight(_)
TrimRight(s) ==
  IF s # <<>> /\ IsSpace(s[Len(s)]) THEN TrimRight(SubSeq(s, 1, Len(s) - 1)) ELSE s

\* String.prototype.trim
trim(s) == TrimRight(TrimLeft(s))

\* String.prototype.split(sep) for a one-character separator: the segments
\* between separators, empty segments kept ("".split(",") is [""]).
RECURSIVE SplitFrom(_, _, _)
SplitFrom(s, sep, cur) ==
  IF s = <<>> THEN <<cur>>
  ELSE IF Head(s) = sep THEN <<cur>> \o SplitFrom(Tail(s), sep, <<>>)
  ELSE SplitFrom(Tail(s), sep, Append(cur, Head(s)))

split(s, sep) == SplitFrom(s, sep, <<>>)

\* Array.prototype.filter(Boolean) on an array of strings: drops "".
RECURSIVE filterBoolean(_)
filterBoolean(a) ==
  IF a = <<>> THEN <<>>
  ELSE IF Head(a) = <<>> THEN filterBoolean(Tail(a))
  ELSE <<Head(a)>> \o filterBoolean(Tail(a))


\* t occurs in s as a contiguous substring.
Contains(s, t) ==
  \E i \in 1..(Len(s) - Len(t) + 1) : SubSeq(s, i, i + Len(t) - 1) = t

(* ------------------------- JS value model ------------------------------ *)
\* undefined, distinct from null: JSON.stringify drops undefined-valued keys.
Undefined == <<"undefined">>
\* An opaque string the code only compares or copies (an id, a type tag).
Tok(s) == <<s>>
\* A JS number.
Num(n) == <<"num", n>>
IsNum(v) == Len(v) = 2 /\ v[1] = "num"
Bool(b) == <<"bool", b>>

\* JS truthiness of a string, null or undefined.
Falsy(v) == v = Null \/ v = Undefined \/ v = <<>>
\* a || b
OrElse(a, b) == IF Falsy(a) THEN b ELSE a

(* ====================================================================== *)
(*  Webhook verifier and forwarder: src/unnamed/part_001                  *)
(* ====================================================================== *)

(* ----------------------------- configuration --------------------------- *)
\* Sample values of the strings the environment may hold.
csvExcluded == <<" ","A","l","@","X"," ",",",",","c","y","@","x">>
flagOff == <<"o","f","f">>
flagOFF == <<"O","F","F">>
flagOn == <<"o","n">>

\* process.env as the webhook reads it.  "" stands for an unset or empty
\* variable where the code only tests truthiness; Undefined for an unset
\* variable where the code reads the text.
Envs ==
  [ STRIPE_WEBHOOK_SECRET : {"", "whsec_live"},
    ZAPIER_HOOK_URL       : {"", "https://hooks.zapier.example"},
    FORWARD_HMAC_SECRET   : {"", "fwd_key"},
    EXCLUDE_EMAILS        : {Undefined, csvExcluded},
    FORWARD_INVOICE_PAID  : {Undefined, flagOff, flagOFF, flagOn} ]

\* .map(s => s.trim().toLowerCase())
RECURSIVE mapTrimLower(_)
mapTrimLower(a) ==
  IF a = <<>> THEN <<>>
  ELSE <<toLowerCase(trim(Head(a)))>> \o mapTrimLower(Tail(a))

\* const EXCLUDE_EMAILS = (process.env.EXCLUDE_EMAILS || "").split(",")...
EXCLUDE_EMAILS(e) ==
  filterBoolean(mapTrimLower(split(OrElse(e.EXCLUDE_EMAILS, <<>>), ",")))

\* An exclusion test that compares the email as given.
isExcludedEmailCaseSensitive(e, email) ==
  IF Falsy(email) THEN FALSE
  ELSE email \in Range(EXCLUDE_EMAILS(e))

isExcludedEmail(e, email) ==
  IF Falsy(email) THEN FALSE
  ELSE toLowerCase(email) \in Range(EXCLUDE_EMAILS(e))

\* String(process.env.FORWARD_INVOICE_PAID || 'on').toLowerCase() === 'off'
invoiceForwardOff(e) ==
  toLowerCase(OrElse(e.FORWARD_INVOICE_PAID, flagOn)) = flagOff

(* --------------------------- hashing, signing --------------------------- *)
\* SHA-256 of a string as an opaque one-way value: equal inputs give equal
\* digests and distinct inputs distinct digests (collision resistance).
sha256Hex(input) == <<"sha256", OrElse(input, <<>>)>>

\* HMAC-SHA256 under a key, as an ideal MAC: the tag is that of the same key
\* and the same bytes only.
Hmac(key, bytes) == <<"hmac", key, bytes>>

\* signForward(bodyString): null without FORWARD_HMAC_SECRET.
signForward(e, bodyString) ==
  IF e.FORWARD_HMAC_SECRET = "" THEN Null
  ELSE Hmac(e.FORWARD_HMAC_SECRET, bodyString)

(* ------------------------------ events --------------------------------- *)
CHECKOUT == Tok("checkout.session.completed")
INVOICE == Tok("invoice.paid")
OTHERTYPE == Tok("customer.created")

emailAl == <<"a","l","@","x">>
emailAlCaps == <<"A","L","@","x">>
emailBo == <<"b","o","@","x">>
nameAlBo == <<"A","l"," ","B","o">>
usd == <<"u","s","d">>
jpy == <<"j","p","y">>
prayerText == <<"p","r","a","y">>

\* The cap of the checkout endpoint on the prayer request it stores in the
\* metadata of the sessions it creates.
PrayerCap == 140

\* Characters of the class [\u0000-\u001f\u007f] that occur in the model.
ControlChars == {"\t", "\n", "\r"}

\* .replace(/[\u0000-\u001f\u007f]/g, "")
stripControl(s) == SelectSeq(s, LAMBDA c : c \notin ControlChars)

\* cleanPrayer of the checkout endpoint:
\* String(prayer_request || "").replace(/[\u0000-\u001f\u007f]/g, "").trim().slice(0, 140)
cleanPrayer(prayer_request) ==
  LET t == trim(stripControl(OrElse(prayer_request, <<>>))) IN
    SubSeq(t, 1, IF Len(t) < PrayerCap THEN Len(t) ELSE PrayerCap)

Repeat(c, n) == [i \in 1..n |-> c]

\* Metadata texts: one character over the cap, and one with a line feed.
longPrayer == Repeat("a", PrayerCap + 1)
ctrlPrayer == <<"a","\n","b">>

\* The prayer_request a session's metadata may hold: what the checkout
\* endpoint stored, or what another creator of sessions (the dashboard, a
\* payment link, the provider's API) put there.
Prayers ==
  { prayerText, longPrayer, ctrlPrayer, cleanPrayer(longPrayer), cleanPrayer(ctrlPrayer) }

\* event.data.object, one shape for a checkout session and an invoice; a field
\* the provider did not send is Undefined.  hasDetails: customer_details is
\* an object.
NoObject ==
  [ id |-> Undefined, mode |-> Undefined, amount_total |-> Undefined,
    currency |-> Undefined, hasDetails |-> FALSE, name |-> Undefined,
    email |-> Undefined, country |-> Undefined, country_code |-> Undefined,
    prayer_request |-> Undefined, amount_paid |-> Undefined,
    customer_email |-> Undefined, subscription |-> Undefined ]

\* A parsed event.  isNull: the value is null or undefined, not an object.
\* hasData: event.data is an object; hasObject: event.data.object is one.
Event(type, id, hasData, hasObject, obj) ==
  [ isNull |-> FALSE, type |-> type, id |-> Tok(id), created |-> Num(1700000000),
    hasData |-> hasData, hasObject |-> hasObject, obj |-> obj ]

NullEvent ==
  [ isNull |-> TRUE, type |-> Undefined, id |-> Undefined, created |-> Undefined,
    hasData |-> FALSE, hasObject |-> FALSE, obj |-> NoObject ]

Session(name, email, mode) ==
  [ NoObject EXCEPT
      !.id = Tok("cs_1"), !.mode = Tok(mode),
      !.amount_total = IF mode = "payment" THEN Num(500) ELSE Num(1000),
      !.currency = IF mode = "payment" THEN usd ELSE jpy,
      !.hasDetails = TRUE, !.name = name, !.email = email,
      !.country = Tok("US") ]

Invoice(email) ==
  [ NoObject EXCEPT
      !.id = Tok("in_1"), !.amount_paid = Num(2500), !.currency = usd,
      !.customer_email = email, !.subscription = Tok("sub_1") ]

CheckoutEvents ==
  { Event(CHECKOUT, "evt_c", TRUE, TRUE, Session(n, m, mode)) :
      n \in {Undefined, nameAlBo},
      m \in {Undefined, emailAl, emailAlCaps, emailBo},
      mode \in {"payment", "subscription"} }
  \cup
  { \* no customer_details, no amount, a prayer request in the metadata
    Event(CHECKOUT, "evt_c", TRUE, TRUE,
          [NoObject EXCEPT !.id = Tok("cs_2"), !.mode = Tok("payment"),
                           !.prayer_request = p]) : p \in Prayers }
  \cup
  { \* no data, and data without object
    Event(CHECKOUT, "evt_c", FALSE, FALSE, NoObject),
    Event(CHECKOUT, "evt_c", TRUE, FALSE, NoObject) }

InvoiceEvents ==
  { Event(INVOICE, "evt_i", TRUE, TRUE, Invoice(m)) : m \in {Undefined, emailAl} }
  \cup { Event(INVOICE, "evt_i", FALSE, FALSE, NoObject) }

OtherEvents ==
  { Event(OTHERTYPE, "evt_o", TRUE, TRUE, NoObject),
    Event(Undefined, "evt_n", FALSE, FALSE, NoObject),
    NullEvent }

Events == CheckoutEvents \cup InvoiceEvents \cup OtherEvents

\* event.data.object can be read and its fields accessed without a TypeError.
HasObject(event) == event.hasData /\ event.hasObject

(* ------------------------- bytes, JSON, requests ------------------------ *)
\* A byte of a request body: punctuation or whitespace (Ch), or the text of
\* one JSON value (Ev).
Ch(c) == <<"ch", c>>
Ev(event) == <<"ev", event>>

\* JSON text of an event without insignificant whitespace.
Serialize(event) == <<Ch("{"), Ev(event), Ch("}")>>

RECURSIVE StripWs(_)
StripWs(bytes) ==
  IF bytes = <<>> THEN <<>>
  ELSE IF Head(bytes) = Ch(" ") THEN StripWs(Tail(bytes))
  ELSE <<Head(bytes)>> \o StripWs(Tail(bytes))

\* JSON.parse succeeds: whitespace apart, the bytes are one value.
Parsable(bytes) ==
  LET b == StripWs(bytes) IN
    Len(b) = 3 /\ b[1] = Ch("{") /\ b[3] = Ch("}") /\ b[2][1] = "ev"

JSONparse(bytes) == StripWs(bytes)[2][2]

\* Bodies the provider (or anybody else) may send.
SpacedBody(event) == <<Ch("{"), Ch(" "), Ev(event), Ch("}")>>

SampleEvent == Event(CHECKOUT, "evt_c", TRUE, TRUE, Session(nameAlBo, emailBo, "payment"))
SampleInvoice == Event(INVOICE, "evt_i", TRUE, TRUE, Invoice(emailAl))

Bodies ==
  { Serialize(ev) : ev \in Events }
  \cup { SpacedBody(SampleEvent), SpacedBody(SampleInvoice) }
  \cup { <<>>, <<Ch("{"), Ev(SampleEvent)>> }

\* The bodies that differ from b in exactly one byte.
OneByteMutations(b) ==
  { [b EXCEPT ![i] = t] :
      i \in 1..Len(b), t \in {Ch(" "), Ch("}"), Ev(SampleInvoice), Ev(SampleEvent)} }
  \ {b}

\* The ways the request stream may deliver b in two chunks.
Splits(b) == { <<SubSeq(b, 1, k), SubSeq(b, k + 1, Len(b))>> : k \in 1..(Len(b) - 1) }

\* The sender's Stripe-Signature header over the bytes it signed.
StripeSignature(secret, bytes) == Hmac(secret, bytes)

Request(method, chunks, sig) == [method |-> method, chunks |-> chunks, sig |-> sig]

Requests ==
  { Request("POST", <<b>>, sg) :
      b \in Bodies,
      sg \in {Undefined} }
  \cup
  { Request("POST", <<b>>, StripeSignature(k, b)) :
      b \in Bodies, k \in {"whsec_live", "whsec_other"} }
  \cup
  UNION { { Request("POST", <<m>>, StripeSignature("whsec_live", b)) :
              m \in OneByteMutations(b) } :
            b \in {Serialize(SampleEvent), SpacedBody(SampleInvoice)} }
  \cup
  UNION { { Request("POST", c, StripeSignature("whsec_live", b)) : c \in Splits(b) } :
            b \in {Serialize(SampleEvent), SpacedBody(SampleInvoice)} }
  \cup
  { Request(m, <<>>, Undefined) : m \in {"GET", "PUT"} }

\* Buffer.concat(chunks)
RECURSIVE concat(_)
concat(chunks) == IF chunks = <<>> THEN <<>> ELSE Head(chunks) \o concat(Tail(chunks))

\* A handler that verifies over the re-serialised parsed body.
readRawBodyReserialized(r) ==
  IF Parsable(concat(r.chunks)) THEN Serialize(JSONparse(concat(r.chunks)))
  ELSE concat(r.chunks)

readRawBody(r) == concat(r.chunks)

\* req.body: the platform's own parse of the body; undefined when it is no JSON.
reqBody(r) ==
  IF Parsable(concat(r.chunks)) THEN JSONparse(concat(r.chunks)) ELSE NullEvent

\* stripe.webhooks.constructEvent(raw, sig, secret): throws unless the header
\* is the signature of exactly these bytes under this secret, then parses.
constructEvent(raw, sig, secret) ==
  IF sig # StripeSignature(secret, raw) THEN [ok |-> FALSE, event |-> NullEvent]
  ELSE IF ~Parsable(raw) THEN [ok |-> FALSE, event |-> NullEvent]
  ELSE [ok |-> TRUE, event |-> JSONparse(raw)]

\* A handler that falls back to the pre-parsed body when verification fails.
acquireEventLenient(e, r) ==
  [ok |-> TRUE, event |-> reqBody(r), log |-> <<"warn:secret_missing">>]

\* A handler that refuses every event while no secret is configured.
acquireEventStrict(e, r) ==
  LET c == constructEvent(readRawBody(r), r.sig, e.STRIPE_WEBHOOK_SECRET) IN
    [ok |-> c.ok, event |-> c.event,
     log |-> IF c.ok THEN <<>> ELSE <<"error:signature_verification_failed">>]

\* Lines 78-96: the event, or the 400 of a failed verification.
acquireEvent(e, r) ==
  IF e.STRIPE_WEBHOOK_SECRET = ""
  THEN [ok |-> TRUE, event |-> reqBody(r), log |-> <<"warn:secret_missing">>]
  ELSE LET c == constructEvent(readRawBody(r), r.sig, e.STRIPE_WEBHOOK_SECRET) IN
         [ok |-> c.ok, event |-> c.event,
          log |-> IF c.ok THEN <<>> ELSE <<"error:signature_verification_failed">>]

(* --------------------------- payload helpers ---------------------------- *)
Someone == Tok("Someone")

\* session.customer_details?.X : undefined without customer_details.
detail(obj, v) == IF obj.hasDetails THEN v ELSE Undefined

\* displayNameFrom(details): the trimmed name, else the email's local part.
displayNameFrom(obj) ==
  LET rawName == detail(obj, obj.name)
      name == IF Falsy(rawName) THEN rawName ELSE trim(rawName)
      email == OrElse(detail(obj, obj.email), <<>>)
      local == split(email, "@")[1]
  IN IF ~Falsy(name) THEN name
     ELSE IF local # <<>> THEN local ELSE Someone

\* .map(w => w[0]) followed by .join(""): the first characters of the words.
RECURSIVE firstLetters(_)
firstLetters(words) ==
  IF words = <<>> THEN <<>>
  ELSE (IF Head(words) = <<>> THEN <<>> ELSE <<Head(words)[1]>>)
       \o firstLetters(Tail(words))

\* String.prototype.slice(0, n)
slice0(s, n) == SubSeq(s, 1, IF Len(s) < n THEN Len(s) ELSE n)

\* (name || "").split(" ").map(w => w[0]).join("").toUpperCase().slice(0, 3)
nameInitials(obj) ==
  slice0(toUpperCase(firstLetters(split(OrElse(detail(obj, obj.name), <<>>), " "))), 3)

zeroDec ==
  { <<"J","P","Y">>, <<"K","R","W">>, <<"V","N","D">>, <<"C","L","P">>,
    <<"X","O","F">>, <<"X","A","F">>, <<"K","M","F">>, <<"D","J","F">>,
    <<"G","N","F">>, <<"P","Y","G">>, <<"R","W","F">>, <<"U","G","X">>,
    <<"V","U","V">> }

\* formatAmount(minor, currency): null for a non-number, else the code and the
\* value, kept in hundredths of a unit (minor / 100 is minor hundredths).
formatAmount(minor, currency) ==
  IF ~IsNum(minor) THEN Null
  ELSE LET code == toUpperCase(OrElse(currency, <<>>)) IN
         <<"amt", code, IF code \in zeroDec THEN minor[2] * 100 ELSE minor[2]>>

\* zeroPad(v): v rounded to hundredths and printed with two fraction digits.
zeroPad(hundredths) == <<"fmt", hundredths \div 100, hundredths % 100, 2>>

symbolMap(code) ==
  CASE code = <<"U","S","D">> -> "$"
    [] code = <<"E","U","R">> -> "EUR-sign"
    [] code = <<"G","B","P">> -> "GBP-sign"
    [] code = <<"J","P","Y">> -> "JPY-sign"
    [] code = <<"K","R","W">> -> "KRW-sign"
    [] OTHER -> ""

\* A display text that takes the session for recurring when it names a
\* subscription object, whatever its mode.
displayTextBySubscriptionId(obj) ==
  LET amt == formatAmount(obj.amount_total, obj.currency) IN
    IF amt = Null THEN Null
    ELSE IF ~Falsy(obj.subscription)
         THEN <<"became a Partner (", symbolMap(amt[2]), zeroPad(amt[3]), "/mo)">>
         ELSE <<"just gave ", symbolMap(amt[2]), zeroPad(amt[3])>>

\* Lines 131-139: the display_text of a checkout payload.
displayText(obj) ==
  LET amt == formatAmount(obj.amount_total, obj.currency) IN
    IF amt = Null THEN Null
    ELSE IF obj.mode = Tok("subscription")
         THEN <<"became a Partner (", symbolMap(amt[2]), zeroPad(amt[3]), "/mo)">>
         ELSE <<"just gave ", symbolMap(amt[2]), zeroPad(amt[3])>>

\* Lines 110-140: the payload of a checkout.session.completed event, its keys
\* in insertion order.
checkoutPayload(event) ==
  LET session == event.obj IN
  << <<"event_type", event.type>>,
     <<"session_id", session.id>>,
     <<"created", event.created>>,
     <<"mode", session.mode>>,
     <<"is_subscription", Bool(session.mode = Tok("subscription"))>>,
     <<"amount_total", session.amount_total>>,
     <<"currency", toUpperCase(OrElse(session.currency, <<>>))>>,
     <<"display_name", displayNameFrom(session)>>,
     <<"customer_email_hash", sha256Hex(OrElse(detail(session, session.email), <<>>))>>,
     <<"customer_name_initials", nameInitials(session)>>,
     <<"country", OrElse(detail(session, session.country),
                         OrElse(detail(session, session.country_code), Null))>>,
     <<"prayer_request", OrElse(session.prayer_request, <<>>)>>,
     <<"display_text", displayText(session)>> >>

\* Lines 179-187: the payload of an invoice.paid event.
invoicePayload(event) ==
  LET invoice == event.obj IN
  << <<"event_type", event.type>>,
     <<"invoice_id", invoice.id>>,
     <<"created", event.created>>,
     <<"amount_paid", invoice.amount_paid>>,
     <<"currency", toUpperCase(OrElse(invoice.currency, <<>>))>>,
     <<"customer_email_hash", sha256Hex(OrElse(invoice.customer_email, <<>>))>>,
     <<"subscription", OrElse(invoice.subscription, Null)>> >>

\* JSON.stringify(payload): the keys in order, undefined values left out.
RECURSIVE JSONstringify(_)
JSONstringify(payload) ==
  IF payload = <<>> THEN <<>>
  ELSE IF Head(payload)[2] = Undefined THEN JSONstringify(Tail(payload))
  ELSE <<Head(payload)>> \o JSONstringify(Tail(payload))

\* A forwarder that signs the payload before event_id is added to it.
forwardRequestSignedEarly(e, payload, event) ==
  LET signature == signForward(e, JSONstringify(payload))
      bodyString == JSONstringify(Append(payload, <<"event_id", event.id>>))
  IN [ url |-> e.ZAPIER_HOOK_URL, method |-> "POST",
       hasSignature |-> signature # Null,
       signature |-> signature,
       body |-> bodyString ]

\* A forwarder that adds the number of the delivery to the body it signs.
forwardRequestStamped(e, payload, event) ==
  LET withId == Append(Append(payload, <<"event_id", event.id>>), <<"delivery", Num(nreq)>>)
      bodyString == JSONstringify(withId)
      signature == signForward(e, bodyString)
  IN [ url |-> e.ZAPIER_HOOK_URL, method |-> "POST",
       hasSignature |-> signature # Null,
       signature |-> signature,
       body |-> bodyString ]

\* Lines 150-162 and 195-202: the arguments of the fetch call.
forwardRequest(e, payload, event) ==
  LET withId == Append(payload, <<"event_id", event.id>>)
      bodyString == JSONstringify(withId)
      signature == signForward(e, bodyString)
  IN [ url |-> e.ZAPIER_HOOK_URL, method |-> "POST",
       hasSignature |-> signature # Null,
       signature |-> signature,
       body |-> bodyString ]

(* ------------------------------ the handler ----------------------------- *)
NoMessage == [ url |-> "", method |-> "", hasSignature |-> FALSE,
               signature |-> Null, body |-> <<>> ]
NoRequest == Request("", <<>>, Undefined)
NoResponse == [status |-> 0, kind |-> "none", body |-> {}]

Json(status, body) == [status |-> status, kind |-> "json", body |-> body]
Text(status, text) == [status |-> status, kind |-> "text", body |-> {<<"text", text>>}]

Received == Json(200, {<<"received", "true">>})

\* The handler ran to a response (kind "respond"), or to the fetch call it
\* now awaits (kind "fetch", msg the call's arguments).
Respond(response, lg) == [kind |-> "respond", res |-> response, msg |-> NoMessage, log |-> lg]
Fetch(message, lg) == [kind |-> "fetch", res |-> NoResponse, msg |-> message, log |-> lg]

\* A catch block that reports the failure to the provider.
handlerErrorRejects ==
  Respond(Text(400, "Webhook Error"), <<"error:handler_error">>)

\* Lines 215-219: the catch of the processing block.
handlerError == Respond(Json(200, {<<"received", "true">>, <<"note", "handled with warnings">>}),
                        <<"error:handler_error">>)

\* Lines 100-170: the checkout.session.completed branch.
checkoutBranch(e, event) ==
  IF ~HasObject(event) THEN handlerError
  ELSE IF isExcludedEmail(e, detail(event.obj, event.obj.email))
  THEN Respond(Json(200, {<<"received", "true">>, <<"skipped", "excluded_email">>}),
               <<"log:skipped_excluded_email">>)
  ELSE IF e.ZAPIER_HOOK_URL # ""
  THEN Fetch(forwardRequest(e, checkoutPayload(event), event), <<"log:checkout">>)
  ELSE Respond(Received, <<"log:checkout">>)

\* An invoice branch that never reads FORWARD_INVOICE_PAID.
invoiceBranchAlways(e, event) ==
  IF ~HasObject(event) THEN handlerError
  ELSE IF e.ZAPIER_HOOK_URL # ""
  THEN Fetch(forwardRequest(e, invoicePayload(event), event), <<"log:invoice">>)
  ELSE Respond(Received, <<"log:invoice">>)

\* Lines 172-208: the invoice.paid branch.
invoiceBranch(e, event) ==
  IF invoiceForwardOff(e)
  THEN Respond(Json(200, {<<"received", "true">>, <<"skipped", "invoice_forward_off">>}),
               <<"log:invoice_forward_off">>)
  ELSE IF ~HasObject(event) THEN handlerError
  ELSE IF e.ZAPIER_HOOK_URL # ""
  THEN Fetch(forwardRequest(e, invoicePayload(event), event), <<"log:invoice">>)
  ELSE Respond(Received, <<"log:invoice">>)

\* A handler that forwards the events of every other type as well.
processEventForwardsAll(e, event) ==
  IF event.isNull THEN handlerError
  ELSE IF event.type = CHECKOUT THEN checkoutBranch(e, event)
  ELSE IF event.type = INVOICE THEN invoiceBranch(e, event)
  ELSE IF e.ZAPIER_HOOK_URL # ""
  THEN Fetch(forwardRequest(e, <<<<"event_type", event.type>>>>, event), <<>>)
  ELSE Respond(Received, <<>>)

\* Lines 98-219: the processing of an accepted event, to its response or to
\* the fetch it awaits.
processEvent(e, event) ==
  IF event.isNull THEN handlerError
  ELSE IF event.type = CHECKOUT THEN checkoutBranch(e, event)
  ELSE IF event.type = INVOICE THEN invoiceBranch(e, event)
  ELSE Respond(Received, <<>>)

\* Lines 68-96, then the processing: the handler from its entry.
handler(e, r) ==
  IF r.method = "GET"
  THEN Respond(Json(200, {<<"ok", "true">>, <<"endpoint", "stripe-webhook">>}), <<>>)
  ELSE IF r.method # "POST" THEN Respond(Text(405, "Method Not Allowed"), <<>>)
  ELSE LET a == acquireEvent(e, r) IN
         IF ~a.ok THEN Respond(Text(400, "Webhook Error"), a.log)
         ELSE LET o == processEvent(e, a.event) IN
                [o EXCEPT !.log = a.log \o o.log]

\* What the awaited fetch may do: answer 2xx, answer another status (with a
\* readable or an unreadable body), or fail.
FetchOutcomes == {"ok", "non2xx", "non2xx_text_throws", "network_error"}

\* Lines 163-168 and 203-206: what the handler logs for the outcome.
fetchLog(outcome) ==
  CASE outcome = "ok" -> <<>>
    [] outcome = "non2xx" -> <<"error:forward_failed">>
    [] OTHER -> <<"error:forward_error">>

\* A handler that answers with the forwarding failure.
afterFetchPropagates(outcome) ==
  IF outcome = "ok" THEN Received ELSE Json(502, {<<"error", "forward failed">>})

\* Lines 213-214: the response after the forwarding try block.
afterFetch(outcome) == Received

\* A handler that makes the POSTs in box once more when the fetch failed.
forwardAgainOnFailure(box, outcome) == IF outcome = "ok" THEN <<>> ELSE box

\* Lines 163-168 and 203-206: the POSTs the handler makes after the outcome
\* of the awaited fetch. A failure is logged and nothing is sent again.
forwardAgain(box, outcome) == <<>>

(* ------------------------------- actions -------------------------------- *)
WInit ==
  /\ env \in Envs
  /\ pc = "idle"
  /\ req = NoRequest
  /\ res = NoResponse
  /\ outbox = <<>>
  /\ log = <<>>
  /\ nreq = 0
  /\ sent = <<>>

\* A request arrives and the handler runs to its response or to its fetch.
\* outbox holds the POSTs made for the request in hand.
Receive(r) ==
  /\ pc = "idle"
  /\ nreq < MaxRequests
  /\ LET o == handler(env, r) IN
       /\ req' = r
       /\ nreq' = nreq + 1
       /\ log' = o.log
       /\ res' = o.res
       /\ outbox' = IF o.kind = "fetch" THEN <<o.msg>> ELSE <<>>
       /\ pc' = IF o.kind = "fetch" THEN "fetch" ELSE "done"
  /\ UNCHANGED <<env, sent, fvars, cvars, kvars>>

\* The same step, observed: every POST the handler makes is also written to
\* sent, which the handler never reads.
Deliver(r) ==
  /\ pc = "idle"
  /\ nreq < MaxRequests
  /\ LET o == handler(env, r) IN
       /\ req' = r
       /\ nreq' = nreq + 1
       /\ log' = o.log
       /\ res' = o.res
       /\ outbox' = IF o.kind = "fetch" THEN <<o.msg>> ELSE <<>>
       /\ sent' = IF o.kind = "fetch"
                  THEN Append(sent, [delivery |-> nreq + 1, req |-> r, msg |-> o.msg])
                  ELSE sent
       /\ pc' = IF o.kind = "fetch" THEN "fetch" ELSE "done"
  /\ UNCHANGED <<env, fvars, cvars, kvars>>

\* The awaited fetch settles and the handler runs to its response.
FetchSettle(outcome) ==
  /\ pc = "fetch"
  /\ log' = log \o fetchLog(outcome)
  /\ res' = afterFetch(outcome)
  /\ LET again == forwardAgain(outbox, outcome) IN
       /\ outbox' = outbox \o again
       /\ sent' = sent \o [i \in 1..Len(again) |->
                              [delivery |-> nreq, req |-> req, msg |-> again[i]]]
  /\ pc' = "done"
  /\ UNCHANGED <<env, req, nreq, fvars, cvars, kvars>>

\* The invocation is over: its request-scoped values are gone, the process
\* and its configuration stay for the next delivery.
Complete ==
  /\ pc = "done"
  /\ pc' = "idle"
  /\ req' = NoRequest
  /\ res' = NoResponse
  /\ outbox' = <<>>
  /\ log' = <<>>
  /\ UNCHANGED <<env, nreq, sent, fvars, cvars, kvars>>

(* ====================================================================== *)
(*  Recent-donations feed: src/api/public-recent-donations.js, the        *)
(*  session-based handler (lines 181-350)                                 *)
(* ====================================================================== *)

(* ----------------------------- configuration --------------------------- *)
textTrue == <<"t","r","u","e">>
textTrueCaps == <<"T","R","U","E">>

FeedEnvs ==
  [ EXCLUDE_DONOR_EMAILS : {Undefined, csvExcluded},
    SHOW_ALL_FOR_TEST    : {Undefined, textTrue, textTrueCaps} ]

\* parseCsvSet(v): the trimmed, lower-cased, non-empty entries of a CSV text.
parseCsvSet(v) ==
  IF Falsy(v) THEN {}
  ELSE Range(filterBoolean(mapTrimLower(split(v, ","))))

\* const EXCLUDE_EMAILS = parseCsvSet(process.env.EXCLUDE_DONOR_EMAILS)
FEED_EXCLUDE_EMAILS(fe) == parseCsvSet(fe.EXCLUDE_DONOR_EMAILS)

\* An override that is on unless the variable is set to something else.
showAllUnlessDisabled(fe) ==
  fe.SHOW_ALL_FOR_TEST = Undefined \/ toLowerCase(fe.SHOW_ALL_FOR_TEST) = textTrue

\* String(process.env.SHOW_ALL_FOR_TEST || "").toLowerCase() === "true"
SHOW_ALL_FOR_TEST(fe) == toLowerCase(OrElse(fe.SHOW_ALL_FOR_TEST, <<>>)) = textTrue

\* An exclusion test that compares the email as given.
feedIsExcludedEmailCaseSensitive(fe, email) ==
  IF Falsy(email) THEN FALSE
  ELSE email \in FEED_EXCLUDE_EMAILS(fe)

\* isExcludedEmail(email) of the feed
feedIsExcludedEmail(fe, email) ==
  IF Falsy(email) THEN FALSE
  ELSE toLowerCase(email) \in FEED_EXCLUDE_EMAILS(fe)

(* ------------------------------ formatting ------------------------------ *)
ZERO_DEC ==
  { <<"B","I","F">>, <<"C","L","P">>, <<"D","J","F">>, <<"G","N","F">>,
    <<"J","P","Y">>, <<"K","M","F">>, <<"K","R","W">>, <<"M","G","A">>,
    <<"P","Y","G">>, <<"R","W","F">>, <<"U","G","X">>, <<"V","N","D">>,
    <<"V","U","V">>, <<"X","A","F">>, <<"X","O","F">>, <<"X","P","F">> }

\* Intl.NumberFormat accepts the code: three letters.
WellFormedCurrency(c) ==
  Len(c) = 3 /\ \A i \in 1..3 : c[i] \in Range(Uppers)

\* formatAmount(minorUnits, currency) of the feed: the code, the whole units,
\* the hundredths and the number of fraction digits shown.  Used only on
\* well-formed codes; on others Intl.NumberFormat throws.
feedFormatAmount(minorUnits, currency) ==
  LET c == toUpperCase(OrElse(currency, <<"U","S","D">>)) IN
    IF c \in ZERO_DEC
    THEN <<"cur", c, minorUnits[2], 0, 0>>
    ELSE <<"cur", c, minorUnits[2] \div 100, minorUnits[2] % 100, 2>>

\* .replace(/[._-]+/g, " ") followed by .split(" ").filter(Boolean): the
\* words between runs of separators.
RECURSIVE wordsOf(_, _)
wordsOf(s, cur) ==
  IF s = <<>> THEN (IF cur = <<>> THEN <<>> ELSE <<cur>>)
  ELSE IF Head(s) \in {".", "_", "-", " "}
       THEN (IF cur = <<>> THEN <<>> ELSE <<cur>>) \o wordsOf(Tail(s), <<>>)
       ELSE wordsOf(Tail(s), Append(cur, Head(s)))

\* s.charAt(0).toUpperCase() + s.slice(1)
capitalize(w) == <<UpperCh(w[1])>> \o Tail(w)

\* .map(capitalize).join(" ")
RECURSIVE joinCapitalized(_)
joinCapitalized(ws) ==
  IF ws = <<>> THEN <<>>
  ELSE IF Len(ws) = 1 THEN capitalize(ws[1])
  ELSE capitalize(ws[1]) \o <<" ">> \o joinCapitalized(Tail(ws))

\* displayName(name, email)
displayName(name, email) ==
  LET n == trim(OrElse(name, <<>>))
      e == trim(OrElse(email, <<>>))
      pretty == joinCapitalized(wordsOf(split(e, "@")[1], <<>>))
  IN IF n # <<>> THEN n
     ELSE IF e # <<>> /\ pretty # <<>> THEN pretty
     ELSE Someone

(* ------------------------ the provider's sessions ----------------------- *)
emailCy == <<"c","y","@","x">>
emailJoDoe == <<"j","o",".","d","o","e","@","x">>

\* A checkout session as stripe.checkout.sessions.list returns it.
FeedSession(id, status, email, consent, pi, created, mode) ==
  [ id |-> Tok(id), payment_status |-> Tok(status), hasDetails |-> TRUE,
    email |-> email, name |-> Undefined, public_consent |-> consent,
    payment_intent |-> pi, created |-> created, mode |-> Tok(mode),
    amount_total |-> IF mode = "payment" THEN Num(500) ELSE Num(1000),
    amount_subtotal |-> Undefined,
    currency |-> IF mode = "payment" THEN usd ELSE jpy ]

FeedSessions ==
  { FeedSession("cs_1", "paid", emailAl, textTrue, Tok("pi_1"), Num(3), "payment"),
    [FeedSession("cs_2", "paid", emailAlCaps, textTrueCaps, Tok("pi_2"), Num(5), "subscription")
       EXCEPT !.name = nameAlBo],
    FeedSession("cs_3", "paid", emailBo, textTrue, Tok("pi_1"), Num(4), "payment"),
    FeedSession("cs_4", "paid", emailJoDoe, Undefined, Tok("pi_3"), Num(6), "payment"),
    FeedSession("cs_5", "unpaid", emailBo, textTrue, Null, Num(7), "payment"),
    FeedSession("cs_6", "paid", emailCy, textTrue, Null, Num(3), "subscription"),
    [FeedSession("cs_7", "paid", Undefined, textTrue, Tok("pi_4"), Undefined, "payment")
       EXCEPT !.hasDetails = FALSE, !.amount_total = Null, !.amount_subtotal = Num(700)],
    [FeedSession("cs_8", "paid", emailBo, textTrue, Tok("pi_5"), Num(5), "payment")
       EXCEPT !.currency = <<"u","s">>] }

RECURSIVE SeqsUpTo(_, _)
SeqsUpTo(S, n) ==
  IF n = 0 THEN {<<>>}
  ELSE LET shorter == SeqsUpTo(S, n - 1) IN
         shorter \cup { Append(q, x) : q \in shorter, x \in S }

\* The lists the provider may answer with.
SessionLists == SeqsUpTo(FeedSessions, MaxSessions)

(* ------------------------------ the request ----------------------------- *)
\* The limit query parameter: absent, or its text.
LimitParams ==
  { Undefined, <<>>, <<"2">>, <<"0">>, <<"-","1">>, <<"9","9">>, <<"a","b">>, <<"1","x">> }

Digits == <<"0","1","2","3","4","5","6","7","8","9">>
IsDigit(c) == \E i \in 1..10 : Digits[i] = c
DigitValue(c) == (CHOOSE i \in 1..10 : Digits[i] = c) - 1

RECURSIVE digitsValue(_, _)
digitsValue(s, acc) ==
  IF s = <<>> \/ ~IsDigit(Head(s)) THEN acc
  ELSE digitsValue(Tail(s), acc * 10 + DigitValue(Head(s)))

NaN == <<"NaN">>

\* parseInt(text, 10): leading whitespace skipped, an optional sign, then the
\* leading digits; NaN without a digit.
parseInt(text) ==
  LET t == TrimLeft(text)
      signed == t # <<>> /\ Head(t) \in {"-", "+"}
      d == IF signed THEN Tail(t) ELSE t
  IN IF d = <<>> \/ ~IsDigit(Head(d)) THEN NaN
     ELSE Num((IF signed /\ Head(t) = "-" THEN -1 ELSE 1) * digitsValue(d, 0))

Min(a, b) == IF a < b THEN a ELSE b
Max(a, b) == IF a > b THEN a ELSE b

\* A parser that takes a parsed 0 for a missing value: (parseInt(...) || 10).
parseLimitZeroIsDefault(param) ==
  LET p == parseInt(OrElse(param, <<"1","0">>)) IN
    IF p = NaN \/ p = Num(0) THEN 10 ELSE Max(1, Min(p[2], 50))

\* Lines 284-292: the limit, 10 unless the parameter parses to a number,
\* then the number clamped into 1..50.
parseLimit(param) ==
  LET p == parseInt(OrElse(param, <<"1","0">>)) IN
    IF p = NaN THEN 10 ELSE Max(1, Min(p[2], 50))

FeedRequest(method, limit, now) == [method |-> method, limit |-> limit, now |-> now]

FeedRequests ==
  { FeedRequest("GET", l, Num(9)) : l \in LimitParams }
  \cup { FeedRequest(m, Undefined, Num(9)) : m \in {"OPTIONS", "POST"} }

NoFeedRequest == FeedRequest("", Undefined, Num(0))

(* ------------------------------ the handler ----------------------------- *)
\* a ?? b
Nullish(a, b) == IF a = Null \/ a = Undefined THEN b ELSE a

\* Lines 321-333: the item built from session s; src is the session's index
\* in the provider's list, kept beside the item for the properties.
feedItem(s, src, now) ==
  LET email == OrElse(IF s.hasDetails THEN s.email ELSE Undefined, <<>>)
      name == displayName(IF s.hasDetails THEN s.name ELSE Undefined, email)
      amountMinor == Nullish(s.amount_total, Nullish(s.amount_subtotal, Num(0)))
      currency == OrElse(s.currency, <<"U","S","D">>)
      amount == feedFormatAmount(amountMinor, currency)
  IN [ name |-> name,
       text |-> IF s.mode = Tok("subscription")
                THEN <<"text", name, " became a Partner (", amount, "/mo)">>
                ELSE <<"text", name, " just gave ", amount>>,
       ts |-> IF s.created = Undefined \/ s.created = Null \/ s.created = Num(0)
              THEN now[2] ELSE s.created[2],
       src |-> src ]

\* A loop that never looks a key up in the keys seen.
RECURSIVE feedLoopKeysIgnored(_, _, _, _, _, _, _)
feedLoopKeysIgnored(fe, data, i, limit, now, items, seen) ==
  IF i > Len(data) \/ Len(items) >= limit THEN items
  ELSE
    LET s == data[i]
        email == OrElse(IF s.hasDetails THEN s.email ELSE Undefined, <<>>)
        consent == toLowerCase(OrElse(s.public_consent, <<>>))
        skip == feedLoopKeysIgnored(fe, data, i + 1, limit, now, items, seen)
    IN IF s.payment_status # Tok("paid") THEN skip
       ELSE IF feedIsExcludedEmail(fe, email) THEN skip
       ELSE IF ~SHOW_ALL_FOR_TEST(fe) /\ consent # textTrue THEN skip
       ELSE IF ~WellFormedCurrency(toUpperCase(OrElse(s.currency, <<"U","S","D">>)))
            THEN skip
       ELSE feedLoopKeysIgnored(fe, data, i + 1, limit, now,
                                Append(items, feedItem(s, i, now)), seen)

\* Lines 302-337: the loop over the provider's sessions from index i on, with
\* the items accepted and the de-duplication keys seen so far.
RECURSIVE feedLoop(_, _, _, _, _, _, _)
feedLoop(fe, data, i, limit, now, items, seen) ==
  IF i > Len(data) \/ Len(items) >= limit THEN items
  ELSE
    LET s == data[i]
        email == OrElse(IF s.hasDetails THEN s.email ELSE Undefined, <<>>)
        consent == toLowerCase(OrElse(s.public_consent, <<>>))
        key == OrElse(s.payment_intent, s.id)
        skip == feedLoop(fe, data, i + 1, limit, now, items, seen)
    IN IF s.payment_status # Tok("paid") THEN skip
       ELSE IF feedIsExcludedEmail(fe, email) THEN skip
       ELSE IF ~SHOW_ALL_FOR_TEST(fe) /\ consent # textTrue THEN skip
       ELSE IF Falsy(key) \/ key \in seen THEN skip
       ELSE IF ~WellFormedCurrency(toUpperCase(OrElse(s.currency, <<"U","S","D">>)))
            THEN \* formatAmount throws; the catch continues, the key stays seen
                 feedLoop(fe, data, i + 1, limit, now, items, seen \cup {key})
       ELSE feedLoop(fe, data, i + 1, limit, now,
                     Append(items, feedItem(s, i, now)), seen \cup {key})

\* items.sort((a, b) => b.ts - a.ts): a stable sort, newest first.
RECURSIVE insertByTs(_, _)
insertByTs(sorted, it) ==
  IF sorted = <<>> THEN <<it>>
  ELSE IF Head(sorted).ts >= it.ts THEN <<Head(sorted)>> \o insertByTs(Tail(sorted), it)
  ELSE <<it>> \o sorted

\* A handler that returns the accepted items in the provider's order.
sortByTsSkipped(items) == items

RECURSIVE sortByTs(_)
sortByTs(items) ==
  IF items = <<>> THEN <<>>
  ELSE insertByTs(sortByTs(SubSeq(items, 1, Len(items) - 1)), items[Len(items)])

\* The response's item: name, text and ts.
publicItem(it) == [name |-> it.name, text |-> it.text, ts |-> it.ts]

\* Lines 277-349: the feed handler on request r, the provider answering with
\* data or failing.
feedHandler(fe, r, data, listFails) ==
  IF r.method = "OPTIONS" THEN [status |-> 204, kind |-> "empty", items |-> <<>>, src |-> <<>>]
  ELSE IF r.method # "GET"
  THEN [status |-> 405, kind |-> "error", items |-> <<>>, src |-> <<>>]
  ELSE IF listFails
  THEN [status |-> 500, kind |-> "error", items |-> <<>>, src |-> <<>>]
  ELSE LET limit == parseLimit(r.limit)
           items == feedLoop(fe, data, 1, limit, r.now, <<>>, {})
           sorted == sortByTs(items)
           out == SubSeq(sorted, 1, Min(limit, Len(sorted)))
       IN [ status |-> 200, kind |-> "items",
            items |-> [k \in 1..Len(out) |-> publicItem(out[k])],
            src |-> [k \in 1..Len(out) |-> out[k].src] ]

NoFeedResponse == [status |-> 0, kind |-> "none", items |-> <<>>]

(* ------------------------------- actions -------------------------------- *)
\* No amount was converted yet.
NoConversion ==
  [ stage |-> "idle", currency |-> Undefined, minor |-> 0, mode |-> "",
    hook |-> Null, feed |-> Null ]

CIdle == conv = NoConversion

\* No checkout request was made yet.
NoCheckoutRequest ==
  [ method |-> "", idempotency_key |-> Undefined,
    body |-> [ mode |-> Undefined, amount |-> Undefined, currency |-> Undefined,
               interval |-> Undefined, interval_count |-> Undefined,
               prayer_request |-> Undefined ] ]
NoCheckoutResponse == [status |-> 0, kind |-> "none", body |-> {}]

KIdle ==
  /\ kpc = "idle"
  /\ kreq = NoCheckoutRequest
  /\ kres = NoCheckoutResponse
  /\ kcalls = <<>>
  /\ ksessions = <<>>
  /\ ktries = 0
  /\ kuuid = 0

FIdle ==
  /\ fpc = "idle"
  /\ freq = NoFeedRequest
  /\ fdata = <<>>
  /\ fres = NoFeedResponse
  /\ fsrc = <<>>
  /\ flist = "none"

WIdle ==
  /\ pc = "idle"
  /\ req = NoRequest
  /\ res = NoResponse
  /\ outbox = <<>>
  /\ log = <<>>
  /\ nreq = 0
  /\ sent = <<>>

\* A feed request is served in one step: the list call and the loop.
FeedServe(r, data, listFails) ==
  /\ fpc = "idle"
  /\ LET o == feedHandler(fenv, r, data, listFails) IN
       /\ fres' = [status |-> o.status, kind |-> o.kind, items |-> o.items]
       /\ fsrc' = o.src
  /\ freq' = r
  /\ fdata' = IF r.method = "GET" /\ ~listFails THEN data ELSE <<>>
  /\ flist' = IF r.method # "GET" THEN "none" ELSE IF listFails THEN "error" ELSE "ok"
  /\ fpc' = "done"
  /\ UNCHANGED <<fenv, wvars, cvars, kvars>>

\* The invocation is over.
FeedComplete ==
  /\ fpc = "done"
  /\ fpc' = "idle"
  /\ freq' = NoFeedRequest
  /\ fdata' = <<>>
  /\ fres' = NoFeedResponse
  /\ fsrc' = <<>>
  /\ flist' = "none"
  /\ UNCHANGED <<fenv, wvars, cvars, kvars>>

\* The webhook process alone.
Init ==
  /\ WInit
  /\ fenv = [EXCLUDE_DONOR_EMAILS |-> Undefined, SHOW_ALL_FOR_TEST |-> Undefined]
  /\ FIdle
  /\ CIdle
  /\ KIdle

Next ==
  \/ pc = "idle" /\ \E r \in Requests : Receive(r)
  \/ \E o \in FetchOutcomes : FetchSettle(o)
  \/ Complete

Spec == Init /\ [][Next]_vars

\* The webhook process with its scheduling: a delivery that can arrive does,
\* and an invocation that has answered ends. Nothing makes the remote end of
\* the awaited fetch answer, and the fetch is given no timeout or abort
\* signal, so FetchSettle is left without fairness.
LiveSpec ==
  /\ Spec
  /\ WF_vars(pc = "idle" /\ \E r \in Requests : Receive(r))
  /\ WF_vars(Complete)

\* The webhook process with the record of its forwarding POSTs, given the
\* deliveries the provider makes and repeats: signed events, and one request
\* without a signature.
DeliveryRequests ==
  { Request("POST", <<Serialize(ev)>>, StripeSignature("whsec_live", Serialize(ev))) :
      ev \in Events }
  \cup { Request("POST", <<Serialize(SampleEvent)>>, Undefined) }

DeliveryNext ==
  \/ pc = "idle" /\ \E r \in DeliveryRequests : Deliver(r)
  \/ \E o \in FetchOutcomes : FetchSettle(o)
  \/ Complete

DeliveryInit == Init /\ env.STRIPE_WEBHOOK_SECRET = "whsec_live"

DeliverySpec == DeliveryInit /\ [][DeliveryNext]_vars

\* The feed process alone.
FeedInit ==
  /\ fenv \in FeedEnvs
  /\ FIdle
  /\ CIdle
  /\ KIdle
  /\ env = [ STRIPE_WEBHOOK_SECRET |-> "", ZAPIER_HOOK_URL |-> "",
             FORWARD_HMAC_SECRET |-> "", EXCLUDE_EMAILS |-> Undefined,
             FORWARD_INVOICE_PAID |-> Undefined ]
  /\ WIdle

FeedNext ==
  \/ /\ fpc = "idle"
     /\ \E r \in FeedRequests, f \in BOOLEAN :
          \E data \in (IF r.method = "GET" /\ ~f THEN SessionLists ELSE {<<>>}) :
             FeedServe(r, data, f)
  \/ FeedComplete

FeedSpec == FeedInit /\ [][FeedNext]_vars

(* ====================================================================== *)
(*  Recent-donations feed: src/api/public-recent-donations.js, the        *)
(*  event-based handler (lines 1-180).  It runs in the feed process and   *)
(*  uses its variables: fdata is the provider's list of events.           *)
(* ====================================================================== *)
\* formatAmount(amount, currency) of the event-based handler: as the feed's,
\* the amount taken as it is.
eventsFormatAmount(amount, currency) ==
  LET upper == toUpperCase(OrElse(currency, <<"U","S","D">>)) IN
    IF upper \in ZERO_DEC
    THEN <<"cur", upper, amount[2], 0, 0>>
    ELSE <<"cur", upper, amount[2] \div 100, amount[2] % 100, 2>>

\* local.replace(/[^a-zA-Z.\-_\s]/g, " ").split(/[._\-\s]+/).filter(Boolean):
\* the runs of letters of the local part.
RECURSIVE letterRuns(_, _)
letterRuns(s, cur) ==
  IF s = <<>> THEN (IF cur = <<>> THEN <<>> ELSE <<cur>>)
  ELSE IF Head(s) \in Range(Lowers) \cup Range(Uppers)
       THEN letterRuns(Tail(s), Append(cur, Head(s)))
       ELSE (IF cur = <<>> THEN <<>> ELSE <<cur>>) \o letterRuns(Tail(s), <<>>)

\* nameFromEmail(email): the first part capitalised and the initial of the
\* second, as in "John D.".
nameFromEmail(email) ==
  IF Falsy(email) THEN Someone
  ELSE LET parts == letterRuns(split(email, "@")[1], <<>>) IN
         IF parts = <<>> THEN Someone
         ELSE capitalize(parts[1])
              \o (IF Len(parts) >= 2 THEN <<" ", UpperCh(parts[2][1]), ".">> ELSE <<>>)

\* buildItem({email, amount, currency, type, created, interval}); src is the
\* event's index in the provider's list, kept beside the item.
buildItem(email, amount, currency, type, created, interval, src) ==
  LET name == nameFromEmail(email)
      amt == eventsFormatAmount(amount, currency)
  IN [ name |-> name,
       text |-> IF type = "subscription"
                THEN <<"text", name, " became a Partner (", amt, "/",
                       IF interval = Tok("month") THEN Tok("mo") ELSE OrElse(interval, Tok("mo")), ")">>
                ELSE <<"text", name, " just gave ", amt>>,
       ts |-> created[2],
       src |-> src ]

(* ------------------------- the provider's events ------------------------ *)
MaxEvents == 3

PAYMENT_SUCCEEDED == Tok("payment_intent.succeeded")

\* evt.data.object, one shape for a checkout session, a payment intent and an
\* invoice.  payment is the underlying payment the object belongs to, which
\* the handler does not read.  retrieve is what stripe.subscriptions.retrieve
\* answers for the session's subscription: a subscription with a first price
\* ("price"), one without ("noprice"), or an error ("throws").
NoFeedObject ==
  [ mode |-> Undefined, subscription |-> Undefined, hasDetails |-> FALSE,
    email |-> Undefined, customer_email |-> Undefined,
    amount_total |-> Undefined, amount_subtotal |-> Undefined, currency |-> Undefined,
    payment_status |-> Undefined, payment |-> Undefined,
    line_amount |-> Undefined, line_currency |-> Undefined,
    receipt_email |-> Undefined, billing_email |-> Undefined,
    amount_received |-> Undefined, amount |-> Undefined,
    retrieve |-> "noprice", price_unit_amount |-> Undefined,
    price_currency |-> Undefined, price_interval |-> Undefined ]

FeedEvent(type, created, obj) == [type |-> type, created |-> Num(created), obj |-> obj]

FeedEvents ==
  { \* a paid one-time checkout, and the payment intent of the same payment
    FeedEvent(CHECKOUT, 5,
      [NoFeedObject EXCEPT !.mode = Tok("payment"), !.hasDetails = TRUE, !.email = emailAl,
         !.amount_total = Num(500), !.currency = usd,
         !.payment_status = Tok("paid"), !.payment = Tok("pi_1")]),
    FeedEvent(PAYMENT_SUCCEEDED, 5,
      [NoFeedObject EXCEPT !.receipt_email = emailAl, !.amount_received = Num(500),
         !.amount = Num(500), !.currency = usd, !.payment = Tok("pi_1")]),
    \* a checkout completed with a delayed payment method: not paid yet
    FeedEvent(CHECKOUT, 4,
      [NoFeedObject EXCEPT !.mode = Tok("payment"), !.hasDetails = TRUE, !.email = emailJoDoe,
         !.amount_subtotal = Num(700), !.amount_total = Null, !.currency = usd,
         !.payment_status = Tok("unpaid"), !.payment = Tok("pi_2")]),
    \* a paid subscription checkout, and the paid invoice of the same payment
    FeedEvent(CHECKOUT, 6,
      [NoFeedObject EXCEPT !.mode = Tok("subscription"), !.subscription = Tok("sub_1"),
         !.customer_email = emailBo, !.payment_status = Tok("paid"),
         !.payment = Tok("pi_3"), !.retrieve = "price",
         !.price_unit_amount = Num(1000), !.price_currency = jpy,
         !.price_interval = Tok("year")]),
    FeedEvent(INVOICE, 6,
      [NoFeedObject EXCEPT !.customer_email = emailBo, !.currency = jpy,
         !.payment = Tok("pi_3"), !.subscription = Tok("sub_1")]),
    \* a subscription checkout whose subscription cannot be retrieved
    FeedEvent(CHECKOUT, 7,
      [NoFeedObject EXCEPT !.mode = Tok("subscription"), !.subscription = Tok("sub_2"),
         !.hasDetails = TRUE, !.payment_status = Tok("paid"),
         !.payment = Tok("pi_4"), !.retrieve = "throws"]),
    \* an event of another type
    FeedEvent(OTHERTYPE, 8, NoFeedObject) }

\* The lists stripe.events.list may answer with.
EventLists == SeqsUpTo(FeedEvents, MaxEvents)

(* ------------------------------ the handler ----------------------------- *)
\* Lines 76-112: the item of a subscription checkout, or none.
subscriptionItems(s, created, src) ==
  IF ~Falsy(s.subscription) /\ s.retrieve = "throws" THEN <<>>
  ELSE
    LET priced == ~Falsy(s.subscription) /\ s.retrieve = "price"
        currency0 == OrElse(s.currency, <<"U","S","D">>)
        interval == IF priced THEN OrElse(s.price_interval, Tok("month")) ELSE Tok("month")
        currency1 == IF priced THEN OrElse(s.price_currency, currency0) ELSE currency0
        amount1 == IF priced THEN Nullish(s.price_unit_amount, Null) ELSE Null
        useLine == amount1 = Null /\ ~Falsy(s.line_amount) /\ ~Falsy(s.line_currency)
        amount == IF useLine THEN s.line_amount ELSE amount1
        currency == IF useLine THEN s.line_currency ELSE currency1
        customerEmail == OrElse(IF s.hasDetails THEN s.email ELSE Undefined, s.customer_email)
    IN IF amount = Null \/ ~WellFormedCurrency(toUpperCase(currency)) THEN <<>>
       ELSE <<buildItem(customerEmail, amount, currency, "subscription", created, interval, src)>>

\* Lines 114-127: the item of a one-time checkout, or none.
paymentItems(s, created, src) ==
  LET amount == Nullish(s.amount_total, Nullish(s.amount_subtotal, Null))
      currency == OrElse(s.currency, <<"U","S","D">>)
      email == OrElse(IF s.hasDetails THEN s.email ELSE Undefined, s.customer_email)
  IN IF amount = Null \/ ~WellFormedCurrency(toUpperCase(currency)) THEN <<>>
     ELSE <<buildItem(email, amount, currency, "payment", created, Undefined, src)>>

\* Lines 131-142: the item of a succeeded payment intent.
paymentIntentItems(pi, created, src) ==
  LET currency == OrElse(pi.currency, <<"U","S","D">>) IN
    IF ~WellFormedCurrency(toUpperCase(currency)) THEN <<>>
    ELSE <<buildItem(OrElse(pi.receipt_email, pi.billing_email),
                     Nullish(pi.amount_received, Nullish(pi.amount, Num(0))),
                     currency, "payment", created, Undefined, src)>>

\* Lines 68-169: what one event adds to the items; an error inside the switch
\* is caught and adds nothing.
eventItems(evt, src) ==
  IF evt.type = CHECKOUT
  THEN IF evt.obj.mode = Tok("subscription") \/ ~Falsy(evt.obj.subscription)
       THEN subscriptionItems(evt.obj, evt.created, src)
       ELSE paymentItems(evt.obj, evt.created, src)
  ELSE IF evt.type = PAYMENT_SUCCEEDED
  THEN paymentIntentItems(evt.obj, evt.created, src)
  ELSE <<>>

\* Lines 65-170: the loop over the provider's events.
RECURSIVE eventsLoop(_, _)
eventsLoop(data, i) ==
  IF i > Len(data) THEN <<>>
  ELSE eventItems(data[i], i) \o eventsLoop(data, i + 1)

\* Lines 55-180: the event-based handler, the provider answering with data
\* or failing.
eventsHandler(data, listFails) ==
  IF listFails
  THEN [status |-> 500, kind |-> "items", items |-> <<>>, src |-> <<>>]
  ELSE LET sorted == sortByTs(eventsLoop(data, 1))
           out == SubSeq(sorted, 1, Min(10, Len(sorted)))
       IN [ status |-> 200, kind |-> "items",
            items |-> [k \in 1..Len(out) |-> publicItem(out[k])],
            src |-> [k \in 1..Len(out) |-> out[k].src] ]

(* ------------------------------- actions -------------------------------- *)
\* A request to the event-based handler is served in one step; the handler
\* reads nothing of the request.
EventsServe(r, data, listFails) ==
  /\ fpc = "idle"
  /\ LET o == eventsHandler(data, listFails) IN
       /\ fres' = [status |-> o.status, kind |-> o.kind, items |-> o.items]
       /\ fsrc' = o.src
  /\ freq' = r
  /\ fdata' = data
  /\ flist' = IF listFails THEN "error" ELSE "ok"
  /\ fpc' = "done"
  /\ UNCHANGED <<fenv, wvars, cvars, kvars>>

\* The event-based feed alone.
EventsInit ==
  /\ fenv = [EXCLUDE_DONOR_EMAILS |-> Undefined, SHOW_ALL_FOR_TEST |-> Undefined]
  /\ FIdle
  /\ CIdle
  /\ KIdle
  /\ env = [ STRIPE_WEBHOOK_SECRET |-> "", ZAPIER_HOOK_URL |-> "",
             FORWARD_HMAC_SECRET |-> "", EXCLUDE_EMAILS |-> Undefined,
             FORWARD_INVOICE_PAID |-> Undefined ]
  /\ WIdle

EventsNext ==
  \/ /\ fpc = "idle"
     /\ \E r \in FeedRequests, f \in BOOLEAN :
          \E data \in (IF f THEN {<<>>} ELSE EventLists) :
             EventsServe(r, data, f)
  \/ FeedComplete

EventsSpec == EventsInit /\ [][EventsNext]_vars

(* ====================================================================== *)
(*  Amount conversion: formatAmount and the display text of the webhook   *)
(*  (src/unnamed/part_001) beside formatAmount of the session-based feed  *)
(* ====================================================================== *)
\* The currency codes given to the formatters: the zero-decimal codes of the
\* provider, three two-decimal codes, each in upper and in lower case, and
\* no code at all.
AmountCurrencies ==
  LET codes == ZERO_DEC \cup { <<"U","S","D">>, <<"E","U","R">>, <<"G","B","P">> } IN
    codes \cup { toLowerCase(c) : c \in codes } \cup {Undefined}

AmountsMinor == {1000, 500, 1}

\* The session of a checkout event with the given amount, currency and mode.
AmountSession(minor, currency, mode) ==
  [NoObject EXCEPT !.id = Tok("cs_1"), !.mode = Tok(mode),
                   !.amount_total = Num(minor), !.currency = currency]

\* Both formatters are given the same amount: hook is the display_text of
\* the webhook's payload, feed the result of the feed's formatAmount.
Convert(currency, minor, mode) ==
  /\ conv' = [ stage |-> "done", currency |-> currency, minor |-> minor, mode |-> mode,
               hook |-> displayText(AmountSession(minor, currency, mode)),
               feed |-> feedFormatAmount(Num(minor), currency) ]
  /\ UNCHANGED <<wvars, fvars, kvars>>

ConvInit ==
  /\ CIdle
  /\ KIdle
  /\ fenv = [EXCLUDE_DONOR_EMAILS |-> Undefined, SHOW_ALL_FOR_TEST |-> Undefined]
  /\ FIdle
  /\ env = [ STRIPE_WEBHOOK_SECRET |-> "", ZAPIER_HOOK_URL |-> "",
             FORWARD_HMAC_SECRET |-> "", EXCLUDE_EMAILS |-> Undefined,
             FORWARD_INVOICE_PAID |-> Undefined ]
  /\ WIdle

ConvNext ==
  \E currency \in AmountCurrencies, minor \in AmountsMinor, mode \in {"payment", "subscription"} :
     Convert(currency, minor, mode)

ConvSpec == ConvInit /\ [][ConvNext]_vars

(* ====================================================================== *)
(*  Checkout creation: src/unnamed/part_006 (the same handler is in       *)
(*  src/api/get-session.js, lines 115-238)                                *)
(* ====================================================================== *)
\* Number of times the client sends its creation request again.
MaxRetries == 2

\* Lines 16-20: what the endpoint accepts.
ALLOWED ==
  [ modes      |-> {Tok("payment"), Tok("subscription")},
    currencies |-> {Tok("USD")},
    intervals  |-> {Tok("week"), Tok("month"), Tok("year")} ]

\* A number that is no integer: 2.5.
Half == <<"frac", 5, 2>>

\* Number.isInteger: a number with no fraction; a string of digits is none.
isInteger(v) == IsNum(v)

\* A JSON body: the fields the handler reads, Undefined for an absent one.
CheckoutBody(mode, amount, currency, interval, interval_count, prayer_request) ==
  [ mode |-> mode, amount |-> amount, currency |-> currency, interval |-> interval,
    interval_count |-> interval_count, prayer_request |-> prayer_request ]

EmptyBody == CheckoutBody(Undefined, Undefined, Undefined, Undefined, Undefined, Undefined)

CheckoutBodies ==
  { CheckoutBody(m, a, c, i, n, p) :
      m \in {Undefined, Tok("payment"), Tok("subscription"), Tok("setup")},
      a \in {Undefined, Num(500), Num(0), Half, Tok("500")},
      c \in {Undefined, Tok("USD"), Tok("usd")},
      i \in {Undefined, Tok("year"), Tok("day")},
      n \in {Undefined, Num(12), Num(13), Num(0), Half},
      p \in {Undefined, <<"p","r","a","y">>} }

CheckoutRequest(method, key, body) ==
  [method |-> method, idempotency_key |-> key, body |-> body]

\* POST requests with and without an Idempotency-Key header (EmptyBody is
\* also what req.body || {} makes of an absent body), and the other methods.
CheckoutRequests ==
  { CheckoutRequest("POST", k, b) : k \in {Undefined, Tok("key-1")}, b \in CheckoutBodies }
    \cup { CheckoutRequest("OPTIONS", Undefined, EmptyBody),
           CheckoutRequest("GET", Tok("key-1"), EmptyBody) }

\* Lines 34-43: a destructuring default applies to an absent field only.
Default(v, d) == IF v = Undefined THEN d ELSE v

destructure(b) ==
  [ mode           |-> Default(b.mode, Tok("payment")),
      amount         |-> b.amount,
      currency       |-> Default(b.currency, Tok("USD")),
      interval       |-> Default(b.interval, Tok("month")),
      interval_count |-> Default(b.interval_count, Num(1)),
      prayer_request |-> Default(b.prayer_request, <<>>) ]

\* A validation that lets every amount through.
invalidFieldAmountUnchecked(f) ==
  IF f.mode \notin ALLOWED.modes THEN "mode"
  ELSE IF f.currency \notin ALLOWED.currencies THEN "currency"
  ELSE IF f.interval \notin ALLOWED.intervals THEN "interval"
  ELSE IF ~isInteger(f.interval_count) \/ f.interval_count[2] < 1 \/ f.interval_count[2] > 12
  THEN "interval_count"
  ELSE ""

\* Lines 45-54: the first field the validation rejects, "" when it rejects
\* none.
invalidField(f) ==
  IF f.mode \notin ALLOWED.modes THEN "mode"
  ELSE IF f.currency \notin ALLOWED.currencies THEN "currency"
  ELSE IF f.interval \notin ALLOWED.intervals THEN "interval"
  ELSE IF ~isInteger(f.interval_count) \/ f.interval_count[2] < 1 \/ f.interval_count[2] > 12
  THEN "interval_count"
  ELSE IF ~isInteger(f.amount) \/ f.amount[2] < 1 THEN "amount"
  ELSE ""

\* Lines 66-70: the metadata of the session.
baseMetadata(f) ==
  LET p == cleanPrayer(f.prayer_request) IN
    [ source |-> "webflow",
      gift_type |-> IF f.mode = Tok("payment") THEN "one-time" ELSE "monthly",
      prayer_request |-> IF p = <<>> THEN Undefined ELSE p ]

\* Line 95: crypto.randomUUID() gives a key no earlier call gave.
randomUUID(n) == <<"uuid", n>>

idemKey(r, n) == OrElse(r.idempotency_key, randomUUID(n))

\* Lines 98-133: the parameters and the options of sessions.create.
createCall(f, key) ==
  [ mode |-> f.mode, currency |-> f.currency, unit_amount |-> f.amount,
    recurring |-> IF f.mode = Tok("payment") THEN Null
                  ELSE <<f.interval, f.interval_count>>,
    metadata |-> baseMetadata(f),
    idempotencyKey |-> key ]

\* The provider's answer to a creation call: the session, or an error.
CreateOutcomes == {"ok", "error"}

CheckoutJson(status, body) == [status |-> status, kind |-> "json", body |-> body]
CheckoutEnd(status) == [status |-> status, kind |-> "end", body |-> {}]

InvalidMessage(field) == "Invalid " \o field

\* Lines 22-139: the handler, to its response and the creation call it made
\* (calls is empty when it made none). n is the number of keys generated so
\* far, outcome the provider's answer should a call be made.
checkoutHandler(r, n, outcome) ==
  IF r.method = "OPTIONS" THEN [res |-> CheckoutEnd(204), calls |-> <<>>]
  ELSE IF r.method # "POST"
  THEN [res |-> CheckoutJson(405, {<<"error", "Method not allowed">>}), calls |-> <<>>]
  ELSE LET f == destructure(r.body)
           bad == invalidField(f) IN
         IF bad # ""
         THEN [res |-> CheckoutJson(400, {<<"error", InvalidMessage(bad)>>}), calls |-> <<>>]
         ELSE [ res |-> IF outcome = "ok"
                        THEN CheckoutJson(200, {<<"url", "session.url">>})
                        ELSE CheckoutJson(500, {<<"error", "Internal server error">>}),
                calls |-> <<createCall(f, idemKey(r, n))>> ]

\* The provider keeps one session for each idempotency key: a call that
\* carries a key it has seen is answered with the session made for it.
provider(sessions, calls, outcome) ==
  IF calls = <<>> \/ outcome # "ok" THEN sessions
  ELSE IF \E i \in 1..Len(sessions) : sessions[i].idempotencyKey = calls[1].idempotencyKey
  THEN sessions
  ELSE Append(sessions, calls[1])

\* One run of the handler on request r.
Serve(r, outcome) ==
  LET o == checkoutHandler(r, kuuid, outcome) IN
    /\ kres' = o.res
    /\ kcalls' = kcalls \o o.calls
    /\ ksessions' = provider(ksessions, o.calls, outcome)
    /\ kuuid' = IF o.calls # <<>> /\ Falsy(r.idempotency_key) THEN kuuid + 1 ELSE kuuid
    /\ kreq' = r
    /\ kpc' = "done"

\* The client sends a creation request.
Submit(r, outcome) ==
  /\ kpc = "idle"
  /\ Serve(r, outcome)
  /\ ktries' = 1
  /\ UNCHANGED <<wvars, fvars, cvars>>

\* The client sends the same request again.
Retry(outcome) ==
  /\ kpc = "done"
  /\ ktries <= MaxRetries
  /\ Serve(kreq, outcome)
  /\ ktries' = ktries + 1
  /\ UNCHANGED <<wvars, fvars, cvars>>

CheckoutInit ==
  /\ KIdle
  /\ CIdle
  /\ fenv = [EXCLUDE_DONOR_EMAILS |-> Undefined, SHOW_ALL_FOR_TEST |-> Undefined]
  /\ FIdle
  /\ env = [ STRIPE_WEBHOOK_SECRET |-> "", ZAPIER_HOOK_URL |-> "",
             FORWARD_HMAC_SECRET |-> "", EXCLUDE_EMAILS |-> Undefined,
             FORWARD_INVOICE_PAID |-> Undefined ]
  /\ WIdle

CheckoutNext ==
  \/ kpc = "idle" /\ \E r \in CheckoutRequests, o \in CreateOutcomes : Submit(r, o)
  \/ \E o \in CreateOutcomes : Retry(o)

CheckoutSpec == CheckoutInit /\ [][CheckoutNext]_vars

(* ====================================================================== *)
(*  Properties of the webhook                                             *)
(* ====================================================================== *)
\* The request in hand, as the sender and the wire made it.
Raw == concat(req.chunks)
InHand == pc # "idle"
IsPost == InHand /\ req.method = "POST"
SecretSet == env.STRIPE_WEBHOOK_SECRET # ""
SignatureMatches == req.sig = StripeSignature(env.STRIPE_WEBHOOK_SECRET, Raw)
\* The event the request carries, when its body is JSON.
Carried == IF Parsable(Raw) THEN JSONparse(Raw) ELSE NullEvent
Verified == IsPost /\ SecretSet /\ SignatureMatches /\ Parsable(Raw)
Degraded == IsPost /\ ~SecretSet
AnswersReceived == res.status = 200 /\ res.kind = "json" /\ <<"received", "true">> \in res.body
BranchLogs == {"log:checkout", "log:invoice", "log:invoice_forward_off",
               "log:skipped_excluded_email", "error:handler_error"}

\* C1: with a verification secret configured, a POST whose verification
\* fails (no or bad signature, a signature under another secret, a body that
\* is no JSON) is answered 400 at once: no event branch runs and no
\* forwarding POST is made.
C1_FailedVerificationRejected ==
  (IsPost /\ SecretSet /\ ~(SignatureMatches /\ Parsable(Raw)))
    => /\ pc = "done"
       /\ res.status = 400
       /\ outbox = <<>>
       /\ Range(log) \cap BranchLogs = {}

C1_Witness ==
  /\ IsPost /\ SecretSet /\ pc = "done"
  /\ req.sig = StripeSignature("whsec_other", Raw)
  /\ Parsable(Raw) /\ Carried.type = CHECKOUT /\ HasObject(Carried)
  /\ env.ZAPIER_HOOK_URL # ""
  /\ res.status = 400

\* C2: with a secret configured, a POST carrying an event passes verification
\* exactly when its signature header is the signature, under the configured
\* secret, of the very bytes the request stream delivered (whitespace and
\* chunking included); a header made for a body that differs from the
\* delivered one in a single byte is rejected.
C2_VerifiedIffExactBytes ==
  (IsPost /\ SecretSet) =>
     /\ Parsable(Raw) => ((res.status # 400) <=> SignatureMatches)
     /\ \A b \in Bodies :
          (req.sig = StripeSignature(env.STRIPE_WEBHOOK_SECRET, b)
             /\ Raw \in OneByteMutations(b)) => res.status = 400 /\ pc = "done"

C2_Witness ==
  /\ IsPost /\ SecretSet /\ SignatureMatches /\ pc = "done"
  /\ Len(req.chunks) = 2
  /\ Parsable(Raw) /\ Raw # Serialize(JSONparse(Raw))
  /\ AnswersReceived

\* The addresses the sample exclusion list names.
ExcludedAddresses(e) ==
  IF e.EXCLUDE_EMAILS = csvExcluded
  THEN { <<"a","l","@","x">>, <<"c","y","@","x">> }
  ELSE {}

PayerEmail(event) == OrElse(detail(event.obj, event.obj.email), <<>>)

\* C3: a verified checkout.session.completed event whose payer email is, letter
\* case apart, an address of the configured exclusion list makes no
\* forwarding POST and is answered 200 with received:true.
C3_ExcludedEmailNotForwarded ==
  (Verified /\ Carried.type = CHECKOUT /\ HasObject(Carried)
     /\ toLowerCase(PayerEmail(Carried)) \in ExcludedAddresses(env))
    => /\ pc = "done"
       /\ outbox = <<>>
       /\ AnswersReceived

C3_Witness ==
  /\ Verified /\ Carried.type = CHECKOUT /\ HasObject(Carried)
  /\ PayerEmail(Carried) = emailAlCaps
  /\ env.EXCLUDE_EMAILS = csvExcluded
  /\ env.ZAPIER_HOOK_URL # ""
  /\ pc = "done" /\ <<"skipped", "excluded_email">> \in res.body

\* C5: a POST whose event was verified, or accepted without a secret, is
\* answered 200 with received:true whatever the forwarding call did and
\* whatever processing threw; a POST gets another status only when a secret
\* is configured and verification failed.
C5_AcceptedAlwaysAcknowledged ==
  (IsPost /\ pc = "done") =>
     /\ (Verified \/ Degraded) => AnswersReceived
     /\ res.status # 200 => (SecretSet /\ ~(SignatureMatches /\ Parsable(Raw)))

C5_Witness ==
  /\ Verified /\ pc = "done"
  /\ "error:forward_error" \in Range(log)
  /\ Len(outbox) = 1
  /\ res = Received

\* The body lacks the fields of an event: no body, no JSON, no type or no
\* data.object.
LacksFields ==
  \/ ~Parsable(Raw)
  \/ Carried.isNull
  \/ Carried.type = Undefined
  \/ ~HasObject(Carried)

\* C6 as stated: a POST whose body lacks the expected event fields is answered
\* 400, and a request with a verb other than GET and POST is answered 405.
C6_MissingFieldsRejected ==
  (InHand /\ pc = "done") =>
     /\ (req.method = "POST" /\ LacksFields) => res.status = 400
     /\ req.method \notin {"GET", "POST"} => res.status = 405

\* C6 amended: a verb other than GET and POST is answered 405; a POST whose
\* body is absent or no JSON is answered 400 when a secret is configured; a
\* POST whose event was accepted (verified, or taken without a secret) but
\* lacks type or data.object is answered 200 with received:true and nothing
\* is forwarded.
C6_MissingFieldsAcknowledged ==
  InHand =>
     /\ req.method \notin {"GET", "POST"} => (res.status = 405 /\ pc = "done")
     /\ (IsPost /\ SecretSet /\ ~Parsable(Raw)) => (res.status = 400 /\ pc = "done")
     /\ (LacksFields /\ (Verified \/ Degraded))
          => (pc = "done" /\ AnswersReceived /\ outbox = <<>>)

C6_Witness ==
  /\ Verified /\ pc = "done"
  /\ Carried.type = CHECKOUT /\ ~Carried.hasData
  /\ env.ZAPIER_HOOK_URL # ""
  /\ AnswersReceived /\ <<"note", "handled with warnings">> \in res.body

\* C7: the body of every forwarding POST is the very string the signature
\* was computed over, event_id included, and the signature header is present
\* exactly when a forwarding secret is configured.
C7_ForwardBodyIsSignedBody ==
  \A i \in 1..Len(outbox) :
     LET m == outbox[i] IN
       /\ m.hasSignature <=> env.FORWARD_HMAC_SECRET # ""
       /\ m.hasSignature => m.signature = Hmac(env.FORWARD_HMAC_SECRET, m.body)
       /\ \E k \in 1..Len(m.body) : m.body[k][1] = "event_id"

C7_Witness ==
  /\ Len(outbox) = 1 /\ outbox[1].hasSignature
  /\ outbox[1].body[Len(outbox[1].body)] = <<"event_id", Tok("evt_c")>>
  /\ pc = "done"

\* The value of key k in a serialised payload (Undefined when absent).
Field(body, k) ==
  IF \E i \in 1..Len(body) : body[i][1] = k
  THEN body[CHOOSE i \in 1..Len(body) : body[i][1] = k][2]
  ELSE Undefined

Keys(body) == { body[i][1] : i \in 1..Len(body) }

\* The keys of a payload whose values are text.
TextKeys == {"display_name", "customer_name_initials", "prayer_request", "currency"}

PayerName(event) == OrElse(detail(event.obj, event.obj.name), <<>>)

\* The parts of an address: the address, its local part, its domain.
EmailParts(email) ==
  IF email = <<>> THEN {}
  ELSE ({email} \cup Range(split(email, "@"))) \ {<<>>}

FirstWord(name) ==
  LET words == filterBoolean(split(name, " ")) IN
    IF words = <<>> THEN <<>> ELSE words[1]

\* What a payload may show of a name: its first word, or its initials.
AllowedNames(name) ==
  { Someone, <<>>, FirstWord(name),
    slice0(toUpperCase(firstLetters(split(name, " "))), 3) }

\* C8 as stated: no forwarded checkout payload holds, outside the hash, the
\* payer's email address or a part of it, nor more of the payer's name than a
\* first name or initials; the email is present as its SHA-256 hash.
C8_NoRawPII ==
  (IsPost /\ Len(outbox) = 1 /\ Carried.type = CHECKOUT) =>
     LET body == outbox[1].body IN
       /\ \A k \in TextKeys \cap Keys(body) :
            \A part \in EmailParts(PayerEmail(Carried)) : ~Contains(Field(body, k), part)
       /\ Field(body, "display_name") \in AllowedNames(PayerName(Carried))
       /\ Field(body, "customer_email_hash") = <<"sha256", PayerEmail(Carried)>>

\* The verified request that carries the event of the request in hand.
VerifiedTwin ==
  Request("POST", <<Serialize(Carried)>>, StripeSignature("whsec_live", Serialize(Carried)))

\* C9: without a verification secret the handler checks no signature, warns,
\* takes the pre-parsed body as the event, and answers and forwards exactly
\* as it does for the same event arriving verified.
C9_DegradedModeProcessesAsVerified ==
  Degraded =>
     LET twin == handler([env EXCEPT !.STRIPE_WEBHOOK_SECRET = "whsec_live"], VerifiedTwin) IN
       /\ "warn:secret_missing" \in Range(log)
       /\ res.status # 400
       /\ outbox = (IF twin.kind = "fetch" THEN <<twin.msg>> ELSE <<>>)
       /\ (pc = "done" /\ twin.kind = "respond") => res = twin.res
       /\ (pc = "fetch") => twin.kind = "fetch"

C9_Witness ==
  /\ Degraded /\ pc = "fetch"
  /\ req.sig = Undefined
  /\ Carried.type = CHECKOUT
  /\ Len(outbox) = 1 /\ Field(outbox[1].body, "event_id") = Tok("evt_c")

InvoiceKeys == {"event_type", "invoice_id", "created", "amount_paid", "currency",
                "customer_email_hash", "subscription", "event_id"}

\* C10: a verified invoice.paid event is answered 200 with received:true and
\* makes no forwarding POST when FORWARD_INVOICE_PAID is off (in any letter
\* case); when the flag is on or unset and a forwarding target is configured,
\* an invoice.paid event (one with a data.object) is forwarded once, as a
\* payload of the invoice's minimal fields with the email only as its hash.
C10_InvoiceForwardingFlag ==
  (Verified /\ Carried.type = INVOICE) =>
     /\ env.FORWARD_INVOICE_PAID \in {flagOff, flagOFF}
          => (pc = "done" /\ outbox = <<>> /\ AnswersReceived)
     /\ (env.FORWARD_INVOICE_PAID \in {Undefined, flagOn}
           /\ env.ZAPIER_HOOK_URL # "" /\ HasObject(Carried))
          => /\ Len(outbox) = 1
             /\ outbox[1].url = env.ZAPIER_HOOK_URL
             /\ Keys(outbox[1].body) \subseteq InvoiceKeys
             /\ Field(outbox[1].body, "invoice_id") = Carried.obj.id
             /\ Field(outbox[1].body, "customer_email_hash")
                  = <<"sha256", OrElse(Carried.obj.customer_email, <<>>)>>
             /\ pc = "done" => AnswersReceived

C10_Witness ==
  /\ Verified /\ Carried.type = INVOICE /\ HasObject(Carried)
  /\ env.FORWARD_INVOICE_PAID = flagOFF
  /\ env.ZAPIER_HOOK_URL # ""
  /\ pc = "done" /\ <<"skipped", "invoice_forward_off">> \in res.body

(* ====================================================================== *)
(*  Properties of the feed                                                *)
(* ====================================================================== *)
\* The addresses the sample exclusion list of the feed names.
FeedExcludedAddresses(fe) ==
  IF fe.EXCLUDE_DONOR_EMAILS = csvExcluded
  THEN { <<"a","l","@","x">>, <<"c","y","@","x">> }
  ELSE {}

SessionEmail(s) == OrElse(IF s.hasDetails THEN s.email ELSE Undefined, <<>>)

\* C4: every item the feed returns is the item of a session of the provider's
\* list whose payer email is, letter case apart, no address of the configured
\* exclusion list, whatever the session's consent flag and the test override.
C4_FeedOmitsExcludedEmails ==
  fpc = "done" =>
    /\ Len(fsrc) = Len(fres.items)
    /\ \A k \in 1..Len(fres.items) :
         /\ fsrc[k] \in 1..Len(fdata)
         /\ fres.items[k] = publicItem(feedItem(fdata[fsrc[k]], fsrc[k], freq.now))
         /\ toLowerCase(SessionEmail(fdata[fsrc[k]])) \notin FeedExcludedAddresses(fenv)

C4_Witness ==
  /\ fpc = "done" /\ fres.status = 200
  /\ fenv.EXCLUDE_DONOR_EMAILS = csvExcluded
  /\ fenv.SHOW_ALL_FOR_TEST = textTrue
  /\ Len(fdata) = 3 /\ Len(fres.items) = 2
  /\ fdata[1].email = emailAlCaps /\ fdata[1].payment_status = Tok("paid")
  /\ fdata[1].public_consent = textTrueCaps

\* C11: a verified event whose type is neither checkout.session.completed nor
\* invoice.paid is answered 200 with received:true; the handler makes no
\* forwarding POST for it and awaits none.
C11_OtherTypesAcknowledgedOnly ==
  (Verified /\ Carried.type \notin {CHECKOUT, INVOICE})
    => /\ pc = "done"
       /\ AnswersReceived
       /\ outbox = <<>>

C11_Witness ==
  /\ Verified /\ pc = "done"
  /\ Carried.type = OTHERTYPE
  /\ env.ZAPIER_HOOK_URL # ""
  /\ res = Received
  /\ outbox = <<>>

\* The prayer_request of a forwarded body is text of at most PrayerCap
\* characters, none of them a control character.
PrayerBounded(body) ==
  LET p == Field(body, "prayer_request") IN
    /\ Len(p) <= PrayerCap
    /\ Range(p) \cap ControlChars = {}

\* C12 as stated: the prayer_request of every forwarded checkout payload is
\* at most 140 characters long and holds no control character, whatever the
\* metadata of the inbound session holds.
C12_PrayerRequestBounded ==
  \A i \in 1..Len(outbox) :
     "prayer_request" \in Keys(outbox[i].body) => PrayerBounded(outbox[i].body)

(* ====================================================================== *)
(*  Properties of the feed                                                *)
(* ====================================================================== *)
\* A feed request was answered with a list of items.
FeedAnswered == fpc = "done" /\ fres.status = 200
\* The limit in force for the request in hand.
Limit == parseLimit(freq.limit)

\* C13 as stated: the returned items are sorted strictly descending by
\* timestamp and are at most limit, with limit in 1..50.
C13_StrictlyDescendingAndBounded ==
  FeedAnswered =>
    /\ \A i \in 1..(Len(fres.items) - 1) : fres.items[i].ts > fres.items[i + 1].ts
    /\ Len(fres.items) <= Limit
    /\ Limit \in 1..50

\* C13: the returned items are sorted descending by timestamp, two sessions
\* created in the same second being both returned with equal timestamps, and
\* are at most limit, with limit in 1..50.
C13_DescendingAndBounded ==
  FeedAnswered =>
    /\ \A i \in 1..(Len(fres.items) - 1) : fres.items[i].ts >= fres.items[i + 1].ts
    /\ Len(fres.items) <= Limit
    /\ Limit \in 1..50

\* Three sessions, the older two of the same second, the newest last in the
\* provider's list.
C13_Witness ==
  /\ FeedAnswered
  /\ Len(fres.items) = 3
  /\ fres.items[1].ts > fres.items[2].ts
  /\ fres.items[2].ts = fres.items[3].ts
  /\ fsrc[1] = 3

\* The items of all the provider's candidates that pass the handler's filters
\* and its de-duplication: the loop without its stop at limit.
AcceptedOfAll == feedLoop(fenv, fdata, 1, Len(fdata) + 1, freq.now, <<>>, {})

\* The first n elements of a sequence.
Truncate(q, n) == SubSeq(q, 1, Min(n, Len(q)))

PublicItems(q) == [k \in 1..Len(q) |-> publicItem(q[k])]

\* C14 as stated: for every list of candidates the provider returns and
\* every limit, the answer is the filtered and de-duplicated candidates,
\* sorted by creation timestamp descending and then truncated to limit: the
\* limit newest qualifying items.
C14_NewestQualifying ==
  FeedAnswered => fres.items = PublicItems(Truncate(sortByTs(AcceptedOfAll), Limit))

\* The limit the interface promises for a query parameter.
ExpectedLimit(param) ==
  IF param = Undefined \/ param = <<>> THEN 10
  ELSE IF parseInt(param) = NaN THEN 10
  ELSE LET v == parseInt(param)[2] IN
         IF v < 1 THEN 1 ELSE IF v > 50 THEN 50 ELSE v

\* C15: the limit in force is 10 when the query parameter is absent, empty
\* or does not parse to a number, and otherwise the parsed integer clamped
\* into 1..50 (0 and negatives give 1, values over 50 give 50); the answer
\* holds that many of the accepted items, or all of them when they are fewer.
C15_LimitDefaultAndClamp ==
  FeedAnswered =>
    /\ Limit = ExpectedLimit(freq.limit)
    /\ Len(fres.items) = Min(ExpectedLimit(freq.limit), Len(AcceptedOfAll))

\* limit=0 is in force as 1: one item of three accepted ones.
C15_Witness ==
  /\ FeedAnswered
  /\ freq.limit = <<"0">>
  /\ Len(AcceptedOfAll) = 3
  /\ Len(fres.items) = 1

\* The session the k-th returned item was built from.
SourceOf(k) == fdata[fsrc[k]]

\* The session's metadata carries the consent flag: the text true, in any
\* letter case.
Consents(s) == s.public_consent \in {textTrue, textTrueCaps}

\* The deployment asked for the test override.
OverrideOn == fenv.SHOW_ALL_FOR_TEST \in {textTrue, textTrueCaps}

\* C16: every returned item is built from a session that carries the
\* public-display consent flag, unless the test override is on; the override
\* is off when SHOW_ALL_FOR_TEST is not set; and with the override on, an
\* unpaid session or one with an excluded email still yields no item.
C16_ConsentUnlessOverride ==
  FeedAnswered =>
    \A k \in 1..Len(fres.items) :
       /\ ~OverrideOn => Consents(SourceOf(k))
       /\ SourceOf(k).payment_status = Tok("paid")
       /\ toLowerCase(SessionEmail(SourceOf(k))) \notin FeedExcludedAddresses(fenv)

\* The override is on: of an unpaid session, a session with an excluded
\* email and a paid session without consent, the last one alone is returned.
C16_Witness ==
  /\ FeedAnswered
  /\ OverrideOn /\ fenv.EXCLUDE_DONOR_EMAILS = csvExcluded
  /\ Len(fdata) = 3
  /\ fdata[1].payment_status = Tok("unpaid")
  /\ fdata[2].email = emailAlCaps /\ fdata[2].payment_status = Tok("paid")
  /\ ~Consents(fdata[3])
  /\ fsrc = <<3>>

\* The event reports a completed payment: a succeeded payment intent, or a
\* completed checkout whose session is paid.
EventPaid(evt) ==
  \/ evt.type = PAYMENT_SUCCEEDED
  \/ evt.type = CHECKOUT /\ evt.obj.payment_status = Tok("paid")

\* C17 as stated, for the event-based handler: every returned item is built
\* from a transaction whose payment is completed; a pending, failed or unpaid
\* one yields no item.
C17_OnlyCompletedPayments ==
  FeedAnswered => \A k \in 1..Len(fres.items) : EventPaid(SourceOf(k))

\* Two events of the provider's list are of different kinds and belong to
\* the same payment.
SamePayment(a, b) ==
  /\ a.type # b.type
  /\ a.obj.payment # Undefined
  /\ a.obj.payment = b.obj.payment

\* C18 as stated, for the event-based handler: of a completed-checkout event
\* and an invoice-paid or payment-succeeded event of the same payment, the
\* checkout event alone yields an item, so no two returned items belong to
\* one payment and none comes from the other event.
C18_OneItemPerPayment ==
  FeedAnswered =>
    /\ \A k1, k2 \in 1..Len(fres.items) : ~SamePayment(SourceOf(k1), SourceOf(k2))
    /\ \A k \in 1..Len(fres.items), i \in 1..Len(fdata) :
         (fdata[i].type = CHECKOUT /\ SamePayment(fdata[i], SourceOf(k)))
            => SourceOf(k).type = CHECKOUT

\* The provider's list call of the request in hand failed.
ListFailed == fpc = "done" /\ flist = "error"

\* C19 as stated, for the session-based handler: a failed provider query is
\* answered with a server error status and a body that is an empty list of
\* items.
C19_FailureGivesEmptyList ==
  ListFailed => fres.status = 500 /\ fres.kind = "items" /\ fres.items = <<>>

\* What may be shown of a payer whose name, or whose email's local part,
\* consists of the given words: the first word, as written or capitalised,
\* alone or followed by the initial of the second word.
FirstPlusInitial(words) ==
  IF words = <<>> THEN {}
  ELSE LET firsts == {words[1], capitalize(words[1])}
           initial == IF Len(words) >= 2 THEN <<UpperCh(words[2][1])>> ELSE <<>>
       IN firsts
          \cup (IF initial = <<>> THEN {}
                ELSE { f \o <<" ">> \o initial \o dot : f \in firsts, dot \in {<<>>, <<".">>} })

\* The display names the claim allows for a session.
AllowedDisplayNames(s) ==
  LET name == OrElse(IF s.hasDetails THEN s.name ELSE Undefined, <<>>)
      local == split(SessionEmail(s), "@")[1]
  IN {Someone}
     \cup FirstPlusInitial(filterBoolean(split(trim(name), " ")))
     \cup FirstPlusInitial(wordsOf(local, <<>>))

\* C20 as stated, for the session-based handler: the name of every returned
\* item is at most a first name and a last initial of the payer, taken from
\* the customer-provided name or from the email's local part, and is
\* "Someone" when the session has neither.
C20_FirstNameAndInitialOnly ==
  FeedAnswered =>
    \A k \in 1..Len(fres.items) :
       /\ fres.items[k].name \in AllowedDisplayNames(SourceOf(k))
       /\ (~SourceOf(k).hasDetails) => fres.items[k].name = Someone

(* ====================================================================== *)
(*  Properties of the amount conversions                                  *)
(* ====================================================================== *)
\* An amount in a currency was given to both formatters.
Converted == conv.stage = "done" /\ conv.currency # Undefined
ConvCode == toUpperCase(conv.currency)
\* The number the webhook's display text shows: whole units, hundredths and
\* the number of fraction digits printed.
HookNumber == conv.hook[3]

\* C21 as stated: for every zero-decimal currency of the provider, 1000
\* minor units are shown as 1000 whole units, undivided and without fraction
\* digits, and for every other currency as 10.00, by the feed's formatter
\* and in the webhook's display text alike.
C21_ZeroDecimalWholeUnits ==
  (Converted /\ conv.minor = 1000) =>
     IF ConvCode \in ZERO_DEC
     THEN /\ conv.feed = <<"cur", ConvCode, 1000, 0, 0>>
          /\ HookNumber = <<"fmt", 1000, 0, 0>>
     ELSE /\ conv.feed = <<"cur", ConvCode, 10, 0, 2>>
          /\ HookNumber = <<"fmt", 10, 0, 2>>

(* ====================================================================== *)
(*  Further properties of the webhook                                     *)
(* ====================================================================== *)
\* A verified checkout event with an amount was forwarded.
ForwardedCheckout ==
  /\ Verified /\ Carried.type = CHECKOUT
  /\ Len(outbox) = 1
  /\ IsNum(Carried.obj.amount_total)

\* C22: the display_text forwarded for a verified checkout event with an
\* amount is "just gave <symbol><amount>" for a one-time session (500 usd:
\* "just gave $5.00") and "became a Partner (<symbol><amount>/mo)" for a
\* recurring one; which of the two is decided by the recurring flag alone,
\* the flag being true exactly for mode subscription.
C22_DisplayTextByRecurringFlag ==
  ForwardedCheckout =>
    LET body == outbox[1].body
        text == Field(body, "display_text")
        recurring == Field(body, "is_subscription") = Bool(TRUE)
        session == Carried.obj
    IN /\ recurring <=> session.mode = Tok("subscription")
       /\ Len(text) = IF recurring THEN 4 ELSE 3
       /\ text[1] = IF recurring THEN "became a Partner (" ELSE "just gave "
       /\ recurring => text[4] = "/mo)"
       /\ text[2] = symbolMap(toUpperCase(session.currency))
       /\ text[3][1] = "fmt"
       /\ (session.amount_total = Num(500) /\ session.currency = usd)
             => (text[2] = "$" /\ text[3] = <<"fmt", 5, 0, 2>>)

C22_Witness ==
  /\ ForwardedCheckout /\ pc = "done"
  /\ Carried.obj.mode = Tok("payment")
  /\ Field(outbox[1].body, "display_text") = <<"just gave ", "$", <<"fmt", 5, 0, 2>>>>

(* ====================================================================== *)
(*  Properties of checkout creation                                       *)
(* ====================================================================== *)
CheckoutAnswered == kpc = "done"

\* The fields of a creation request that are not what the endpoint accepts.
BadFields(f) ==
  { x \in {"mode", "currency", "interval", "interval_count", "amount"} :
      \/ x = "mode" /\ f.mode \notin {Tok("payment"), Tok("subscription")}
      \/ x = "currency" /\ f.currency # Tok("USD")
      \/ x = "interval" /\ f.interval \notin {Tok("week"), Tok("month"), Tok("year")}
      \/ x = "interval_count" /\ ~(IsNum(f.interval_count) /\ f.interval_count[2] \in 1..12)
      \/ x = "amount" /\ ~(IsNum(f.amount) /\ f.amount[2] >= 1) }

InvalidCreation ==
  CheckoutAnswered /\ kreq.method = "POST" /\ BadFields(destructure(kreq.body)) # {}

\* C23: a creation request with an invalid mode, currency, interval,
\* interval_count or amount is answered with 400 and a message that names an
\* invalid field, and no creation call was made to the provider for it.
C23_InvalidRejectedBeforeProvider ==
  InvalidCreation =>
    /\ kres.status = 400
    /\ kres.kind = "json"
    /\ \E x \in BadFields(destructure(kreq.body)) : kres.body = {<<"error", "Invalid " \o x>>}
    /\ kcalls = <<>>
    /\ ksessions = <<>>

\* A request whose only invalid field is the amount was sent twice.
C23_Witness ==
  /\ InvalidCreation
  /\ BadFields(destructure(kreq.body)) = {"amount"}
  /\ ktries = 2
  /\ kres.status = 400

\* C24: every creation call carries an idempotency key, the client's when
\* the request has one, and however often the client sends the same creation
\* request, the provider creates at most one checkout session for it.
C24_RetriesCreateOneSession ==
  /\ \A i \in 1..Len(kcalls) :
        /\ ~Falsy(kcalls[i].idempotencyKey)
        /\ ~Falsy(kreq.idempotency_key) => kcalls[i].idempotencyKey = kreq.idempotency_key
  /\ Len(ksessions) <= 1

(* ====================================================================== *)
(*  Properties of all endpoints                                           *)
(* ====================================================================== *)
\* A JSON body whose only field is error.
ErrorOnly(r) ==
  r.kind = "json" /\ Cardinality(r.body) = 1 /\ \A p \in r.body : p[1] = "error"

\* C25: every failure response (status 400 and above) of the webhook, of the
\* feed and of checkout creation is a JSON object whose only field is error.
C25_FailuresAreErrorObjects ==
  /\ res.status >= 400 => ErrorOnly(res)
  /\ kres.status >= 400 => ErrorOnly(kres)
  /\ fres.status >= 400 => fres.kind = "error"

(* ====================================================================== *)
(*  Properties of the webhook's forwarding                                *)
(* ====================================================================== *)
\* C26: the response to a verified event does not wait for the forwarding
\* call: once the call is made, the 200 response is eventually sent, whether
\* or not the call ever completes.
C26_ResponseDoesNotWaitForForward ==
  (Verified /\ pc = "fetch") ~> (res.status = 200)

(* ====================================================================== *)
(*  Properties of the feed's de-duplication                               *)
(* ====================================================================== *)
\* The de-duplication key of a session: its payment-intent id when it has
\* one, its session id otherwise.
DedupeKey(s) ==
  IF s.payment_intent \in {Null, Undefined, <<>>} THEN s.id ELSE s.payment_intent

\* The session passes the filters that come before the de-duplication.
PassesFilters(s) ==
  /\ s.payment_status = Tok("paid")
  /\ toLowerCase(SessionEmail(s)) \notin FeedExcludedAddresses(fenv)
  /\ OverrideOn \/ Consents(s)

\* Session j is the first of its key, in the provider's order, to pass them.
FirstOfKey(j) ==
  /\ PassesFilters(fdata[j])
  /\ \A i \in 1..(j - 1) :
        PassesFilters(fdata[i]) => DedupeKey(fdata[i]) # DedupeKey(fdata[j])

Returned(j) == \E k \in 1..Len(fsrc) : fsrc[k] = j

\* C27: no two returned items come from sessions with the same key; a
\* returned item comes from the first session of its key that passes the
\* other filters; and, the limit leaving room for every session and the
\* amount being printable, that first session is returned whatever sessions
\* of the same key the earlier filters rejected before it.
C27_OneItemPerKeyFirstKept ==
  FeedAnswered =>
    /\ \A a, b \in 1..Len(fsrc) :
          a # b => DedupeKey(SourceOf(a)) # DedupeKey(SourceOf(b))
    /\ \A k \in 1..Len(fsrc) : FirstOfKey(fsrc[k])
    /\ Limit >= Len(fdata) =>
          \A j \in 1..Len(fdata) :
             (FirstOfKey(j) /\ fdata[j].currency # <<"u","s">>) => Returned(j)

\* Three sessions of one payment intent: the first has an excluded email, the
\* second is returned, the third is not.
C27_Witness ==
  /\ FeedAnswered
  /\ fenv.EXCLUDE_DONOR_EMAILS = csvExcluded
  /\ Len(fdata) = 3
  /\ fdata[1].id = Tok("cs_1") /\ fdata[2].id = Tok("cs_3") /\ fdata[3].id = Tok("cs_3")
  /\ \A i \in 1..3 : DedupeKey(fdata[i]) = Tok("pi_1")
  /\ ~PassesFilters(fdata[1])
  /\ fsrc = <<2>>

\* The POSTs made for delivery n.
PostsOf(n) == SelectSeq(sent, LAMBDA p : p.delivery = n)

\* The fetch of the delivery in hand has failed.
ForwardFailed ==
  pc = "done" /\ Len(log) > 0
    /\ log[Len(log)] \in {"error:forward_failed", "error:forward_error"}

\* C28: at most one forwarding POST is made for each webhook request, the
\* one made while the request is in hand is the forward of that request's
\* own event, and after a failed forwarding call the request still has its
\* single POST: the call is not made again, neither before the response nor
\* for a later request.
C28_OnePostPerRequestNoRetry ==
  /\ \A n \in 1..MaxRequests : Len(PostsOf(n)) <= 1
  /\ \A i \in 1..Len(sent) : sent[i].delivery \in 1..nreq
  /\ InHand =>
        /\ Len(outbox) <= 1
        /\ [i \in 1..Len(PostsOf(nreq)) |-> PostsOf(nreq)[i].msg] = outbox
        /\ \A i \in 1..Len(outbox) : Field(outbox[i].body, "event_id") = Carried.id

\* The forward of the first delivery failed, and the second delivery, of
\* another event, made the one POST of its own.
C28_Witness ==
  /\ nreq = 2 /\ pc = "done" /\ Len(sent) = 2
  /\ sent[1].delivery = 1 /\ sent[2].delivery = 2
  /\ Field(sent[1].msg.body, "event_id") # Field(sent[2].msg.body, "event_id")
  /\ ForwardFailed

\* The event a recorded POST was made for.
InboundOf(p) == JSONparse(concat(p.req.chunks))

\* C29: the handler keeps no record of the events it handled: a verified
\* event that was forwarded and is delivered again is forwarded again, every
\* POST carries the id of the event it was made for as event_id, and the
\* POSTs made for the same event have the same body and the same signature.
C29_RedeliveryForwardsIdentically ==
  \A i \in 1..Len(sent) :
     /\ Field(sent[i].msg.body, "event_id") = InboundOf(sent[i]).id
     /\ (InHand /\ sent[i].delivery < nreq /\ sent[i].req = req) =>
           /\ Len(outbox) = 1
           /\ outbox[1].body = sent[i].msg.body
           /\ outbox[1].signature = sent[i].msg.signature
           /\ outbox[1].hasSignature = sent[i].msg.hasSignature
     /\ \A j \in 1..Len(sent) : sent[j].req = sent[i].req => sent[j].msg = sent[i].msg

\* The same verified event was delivered twice and forwarded twice, signed.
C29_Witness ==
  /\ nreq = 2 /\ pc = "done" /\ Verified
  /\ Len(sent) = 2
  /\ sent[1].req = req /\ sent[2].req = req
  /\ sent[1].delivery = 1 /\ sent[2].delivery = 2
  /\ sent[1].msg.hasSignature
  /\ sent[1].msg = sent[2].msg

(* ====================================================================== *)
(*  The two amount conversions side by side                               *)
(* ====================================================================== *)
\* The value shown is the hundredth part of the minor-unit amount.
HookDivides == HookNumber[2] * 100 + HookNumber[3] = conv.minor
FeedDivides == conv.feed[3] * 100 + conv.feed[4] = conv.minor

\* C30: for every currency code and every minor-unit amount, the webhook's
\* conversion divides the amount by 100 exactly when the feed's conversion
\* does: both take the same currencies for zero-decimal.
C30_ConversionsAgreeOnDivision ==
  Converted => (HookDivides <=> FeedDivides)

====
